---- MODULE Spec2Model ----
(***************************************************************************)
(* Model of the Simple Reminder App (app.js): the local reminder store,    *)
(* the connectivity monitor and the sync coordinator.                      *)
(*                                                                         *)
(* The foreground application is single threaded: every action below is    *)
(* one run-to-completion task (an event handler, or the continuation of an *)
(* async function after one of its awaits).                                *)
(***************************************************************************)
EXTENDS Integers, Sequences, FiniteSets, TLC

(* ------------------------------ bounds -------------------------------- *)

\* how many times the user changes the list (add, save an edit, delete)
MaxEdits == 1
\* how many probes started by the timer or by online events may be pending
MaxProbes == 1
\* longest reminder list the store and the sweep are tried on, on their own
MaxLen == 2
\* how many enableNotifications executions may be pending
MaxSetups == 2
\* how many events the service worker is handed
MaxEvents == 2

(* ----------------------------- constants ------------------------------ *)

\* 1000 * 60 * 60 in cleanupPastReminders
HourMs == 1000 * 60 * 60
\* the retention window of cleanupPastReminders, in hours
RetentionHours == 24
\* the instant the page starts at (milliseconds, on a whole minute)
Now0 == 100 * HourMs

\* JavaScript null for editingId (ids are positive timestamps)
NullId == 0 - 1

\* one minute, the step of a datetime-local input
MinuteMs == 1000 * 60

\* scheduled times of the reminders drawn as inputs: a minute beyond the
\* retention window at the start instant, exactly on its edge, and ahead
DateTimes ==
    {Now0 - RetentionHours * HourMs - MinuteMs, Now0 - RetentionHours * HourMs,
     Now0 + HourMs}
Repeats == {"once", "daily"}

(* ------------------------ JSON text (token level) ---------------------- *)
(* A JSON text is a sequence of tokens.  Punctuation is [p |-> c], a       *)
(* number is [num |-> n], a plain string is [str |-> s]; a string holding  *)
(* a date is [date |-> ms], denoted by the instant it parses to; null,     *)
(* true and false are [lit |-> name]; a member's name is [key |-> k], k no *)
(* array index (such names JSON.stringify writes first).                   *)
(* A JSON value is such a scalar token, an array [elements |-> vs] of the  *)
(* values vs, or an object [members |-> ms] of the members ms, each        *)
(* [key, val], in the order of its keys.                                   *)

P(c) == [p |-> c]
Key(k) == [key |-> k]

IsDateField(k) == k \in {"dateTime", "created", "modified"}
IsNumField(k) == k = "id"

\* the value token of field k holding v
ValueToken(k, v) ==
    IF IsNumField(k) THEN [num |-> v]
    ELSE IF IsDateField(k) THEN [date |-> v]
    ELSE [str |-> v]

\* own keys of a reminder object, in insertion order (addReminder's literal,
\* then saveEdit's spread which appends modified)
KeyOrder == <<"id", "dateTime", "note", "repeat", "created", "modified">>

KeysOf(r) == SelectSeq(KeyOrder, LAMBDA k : k \in DOMAIN r)

RECURSIVE StringifyFields(_, _)
StringifyFields(r, ks) ==
    IF ks = <<>> THEN <<>>
    ELSE <<Key(Head(ks)), P(":"), ValueToken(Head(ks), r[Head(ks)])>>
         \o (IF Len(ks) > 1 THEN <<P(",")>> ELSE <<>>)
         \o StringifyFields(r, Tail(ks))

StringifyObject(r) == <<P("{")>> \o StringifyFields(r, KeysOf(r)) \o <<P("}")>>

RECURSIVE StringifyItems(_)
StringifyItems(s) ==
    IF s = <<>> THEN <<>>
    ELSE StringifyObject(Head(s))
         \o (IF Len(s) > 1 THEN <<P(",")>> ELSE <<>>)
         \o StringifyItems(Tail(s))

\* reminders, and what JSON.parse returns, as the model holds it: a list of
\* reminder objects is the sequence of them, each the record of its fields;
\* any other JSON value v is Other(v)
Other(v) == <<[other |-> v]>>
IsOther(rs) == Len(rs) = 1 /\ DOMAIN rs[1] = {"other"}

\* JSON.stringify of the JSON value v
RECURSIVE Tokens(_), ElementTokens(_), MemberTokens(_)
ElementTokens(vs) ==
    IF Len(vs) = 0 THEN <<>>
    ELSE Tokens(Head(vs)) \o (IF Len(vs) > 1 THEN <<P(",")>> ELSE <<>>)
         \o ElementTokens(Tail(vs))
MemberTokens(ms) ==
    IF Len(ms) = 0 THEN <<>>
    ELSE <<Key(Head(ms).key), P(":")>> \o Tokens(Head(ms).val)
         \o (IF Len(ms) > 1 THEN <<P(",")>> ELSE <<>>) \o MemberTokens(Tail(ms))
Tokens(v) ==
    IF DOMAIN v = {"elements"} THEN <<P("[")>> \o ElementTokens(v.elements) \o <<P("]")>>
    ELSE IF DOMAIN v = {"members"} THEN <<P("{")>> \o MemberTokens(v.members) \o <<P("}")>>
    ELSE <<v>>

\* JSON.stringify(reminders)
JSONstringify(s) ==
    IF IsOther(s) THEN Tokens(s[1].other)
    ELSE <<P("[")>> \o StringifyItems(s) \o <<P("]")>>

\* JSON.stringify({ reminders }), the body of POST /sync-reminders
SyncBody(s) == <<P("{"), Key("reminders"), P(":")>> \o JSONstringify(s) \o <<P("}")>>

(* The parser: a result is [ok, val, next], next the position after the value. *)

IsP(t, i, c) == i <= Len(t) /\ t[i] = P(c)
IsKey(t, i) == i <= Len(t) /\ DOMAIN t[i] = {"key"}
IsValue(t, i) == i <= Len(t) /\ DOMAIN t[i] \in {{"num"}, {"str"}, {"date"}, {"lit"}}
TokenValue(tok) ==
    IF DOMAIN tok = {"num"} THEN tok.num
    ELSE IF DOMAIN tok = {"date"} THEN tok.date
    ELSE tok.str

\* no value at position i
NoValue(i) == [ok |-> FALSE, val |-> <<>>, next |-> i]

\* the members ms with the member k: v defined: a key seen before keeps its
\* place and takes the value
Put(ms, k, v) ==
    IF \E j \in 1..Len(ms) : ms[j].key = k
    THEN [j \in 1..Len(ms) |-> IF ms[j].key = k THEN [key |-> k, val |-> v] ELSE ms[j]]
    ELSE Append(ms, [key |-> k, val |-> v])

RECURSIVE ParseValue(_, _), ParseMembers(_, _, _), ParseElements(_, _, _)

\* members of an object from position i: key : value (, key : value)* }
\* acc holds the members so far
ParseMembers(t, i, acc) ==
    IF IsKey(t, i) /\ IsP(t, i + 1, ":")
    THEN LET v == ParseValue(t, i + 2)
         IN  IF ~v.ok THEN NoValue(i)
             ELSE IF IsP(t, v.next, ",")
             THEN ParseMembers(t, v.next + 1, Put(acc, t[i].key, v.val))
             ELSE IF IsP(t, v.next, "}")
             THEN [ok |-> TRUE, val |-> [members |-> Put(acc, t[i].key, v.val)],
                   next |-> v.next + 1]
             ELSE NoValue(i)
    ELSE NoValue(i)

\* the object that opens at position i
ParseObject(t, i) ==
    IF IsP(t, i + 1, "}") THEN [ok |-> TRUE, val |-> [members |-> <<>>], next |-> i + 2]
    ELSE ParseMembers(t, i + 1, <<>>)

\* elements of an array from position i: value (, value)* ]
ParseElements(t, i, acc) ==
    LET v == ParseValue(t, i)
    IN  IF ~v.ok THEN NoValue(i)
        ELSE IF IsP(t, v.next, ",") THEN ParseElements(t, v.next + 1, Append(acc, v.val))
        ELSE IF IsP(t, v.next, "]")
             THEN [ok |-> TRUE, val |-> [elements |-> Append(acc, v.val)],
                   next |-> v.next + 1]
        ELSE NoValue(i)

\* the value at position i: an object, an array or a scalar
ParseValue(t, i) ==
    IF IsP(t, i, "{") THEN ParseObject(t, i)
    ELSE IF IsP(t, i, "[")
    THEN IF IsP(t, i + 1, "]")
         THEN [ok |-> TRUE, val |-> [elements |-> <<>>], next |-> i + 2]
         ELSE ParseElements(t, i + 1, <<>>)
    ELSE IF IsValue(t, i) THEN [ok |-> TRUE, val |-> t[i], next |-> i + 1]
    ELSE NoValue(i)

\* the JSON value o is a reminder object as the application writes it: the
\* fields of KeyOrder, in that order, each of its kind
IsReminder(o) ==
    /\ DOMAIN o = {"members"}
    /\ \A j \in 1..Len(o.members) :
           /\ \E n \in 1..Len(KeyOrder) : KeyOrder[n] = o.members[j].key
           /\ DOMAIN o.members[j].val = DOMAIN ValueToken(o.members[j].key, 0)
    /\ \A j, k \in 1..Len(o.members) :
           j < k => \E m, n \in 1..Len(KeyOrder) :
                       /\ m < n
                       /\ KeyOrder[m] = o.members[j].key
                       /\ KeyOrder[n] = o.members[k].key

\* the reminder object o as the record of its fields
Fields(o) ==
    [k \in {o.members[j].key : j \in 1..Len(o.members)} |->
        TokenValue((CHOOSE m \in {o.members[j] : j \in 1..Len(o.members)} : m.key = k).val)]

\* the JSON value v as the model holds it
Held(v) ==
    IF DOMAIN v = {"elements"} /\ \A i \in 1..Len(v.elements) : IsReminder(v.elements[i])
    THEN [i \in 1..Len(v.elements) |-> Fields(v.elements[i])]
    ELSE Other(v)

\* JSON.parse(text): ok is FALSE where JSON.parse throws a SyntaxError (text
\* left over after the value included)
JSONparse(t) ==
    LET r == ParseValue(t, 1)
    IN  IF r.ok /\ r.next = Len(t) + 1 THEN [ok |-> TRUE, val |-> Held(r.val)]
        ELSE [ok |-> FALSE, val |-> <<>>]


(* ------------------------------- state -------------------------------- *)

VARIABLES
    reminders,              \* let reminders = []
    isOnline,               \* let isOnline = false
    editingId,              \* let editingId = null
    syncInProgress,         \* let syncInProgress = false
    swRegistration,         \* let swRegistration = null (TRUE: a registration object)
    notificationsEnabled,   \* let notificationsEnabled = false
    subscriptionActive,     \* let subscriptionActive = false
    store,                  \* localStorage item 'simple_reminders': [has, text]
    enabledItem,            \* localStorage item 'notifications_enabled'
    storageWritable,        \* localStorage.setItem succeeds (FALSE: it throws)
    statusEl,               \* the connectivity status line: [message, type]
    notificationSetupEl,    \* style.display of the setup block
    notificationStatusEl,   \* the notification status region: [display, className, text]
    btnDisabled,            \* enableNotificationsBtn.disabled
    permission,             \* Notification.permission
    now,                    \* the last clock reading that went into the list
    edits,                  \* how many times the user changed the list so far
    boot,                   \* where the DOMContentLoaded handler stands
    cleanupPending,         \* setTimeout(cleanupPastReminders, 2000) has not fired
    probes,                 \* pending connectToServer calls of the timer and online events
    syncs,                  \* pending syncWithServer executions, oldest first
    setups,                 \* pending enableNotifications executions, oldest first
    sent,                   \* the requests the last task with an effect sent
    handled,                \* history: what the last task with an effect was
    unsynced,               \* history: an edit made while Online, which has stayed
                            \* Online since, is in no POST body yet
    isIOS,                  \* sw.js: /iPad|iPhone|iPod/.test(navigator.userAgent)
    notifications,          \* sw.js: the notifications on display, oldest first
    windows,                \* sw.js: the window clients matchAll returns, in its order
    messages,               \* sw.js: the messages posted to window clients so far
    responses,              \* sw.js: how the fetch events so far were answered
    jobs,                   \* sw.js: the pending promise chains and timers
    events,                 \* sw.js: how many events the worker was handed so far
    reachable               \* the server answers every request from now on, and
                            \* the platform reports no loss of the network

\* the application's variables but for the two histories of the last task
appVars == <<reminders, isOnline, editingId, syncInProgress, swRegistration,
             notificationsEnabled, subscriptionActive, store, enabledItem,
             storageWritable, statusEl, notificationSetupEl, notificationStatusEl,
             btnDisabled, permission, now, edits, boot, cleanupPending, probes,
             syncs, setups, unsynced>>

\* the service worker's variables
workerVars == <<isIOS, notifications, windows, messages, responses, jobs, events>>

vars == <<appVars, sent, handled, workerVars, reachable>>

\* the worker has been handed no event; ns are the notifications earlier runs
\* of it left on display, ws the windows that are open
WorkerAsleep(ios, ws, ns) ==
    /\ isIOS = ios
    /\ notifications = ns
    /\ windows = ws
    /\ messages = <<>>
    /\ responses = <<>>
    /\ jobs = <<>>
    /\ events = 0

\* the application's state as one value, for the functions below; a task
\* starts with no request sent
Cur ==
    [reminders |-> reminders, isOnline |-> isOnline, editingId |-> editingId,
     syncInProgress |-> syncInProgress, swRegistration |-> swRegistration,
     notificationsEnabled |-> notificationsEnabled,
     subscriptionActive |-> subscriptionActive, store |-> store,
     enabledItem |-> enabledItem, statusEl |-> statusEl,
     notificationSetupEl |-> notificationSetupEl,
     notificationStatusEl |-> notificationStatusEl, btnDisabled |-> btnDisabled,
     boot |-> boot, cleanupPending |-> cleanupPending, probes |-> probes,
     syncs |-> syncs, setups |-> setups, sent |-> <<>>]

\* the state a task leaves behind
Commit(s) ==
    /\ reminders' = s.reminders
    /\ isOnline' = s.isOnline
    /\ editingId' = s.editingId
    /\ syncInProgress' = s.syncInProgress
    /\ swRegistration' = s.swRegistration
    /\ notificationsEnabled' = s.notificationsEnabled
    /\ subscriptionActive' = s.subscriptionActive
    /\ store' = s.store
    /\ enabledItem' = s.enabledItem
    /\ statusEl' = s.statusEl
    /\ notificationSetupEl' = s.notificationSetupEl
    /\ notificationStatusEl' = s.notificationStatusEl
    /\ btnDisabled' = s.btnDisabled
    /\ boot' = s.boot
    /\ cleanupPending' = s.cleanupPending
    /\ probes' = s.probes
    /\ syncs' = s.syncs
    /\ setups' = s.setups
    /\ sent' = s.sent
    /\ UNCHANGED <<workerVars, reachable>>

\* localStorage.getItem of a key never written
NoItem == [has |-> FALSE, text |-> <<>>]
Item(t) == [has |-> TRUE, text |-> t]

(* ------------------------- local reminder store ------------------------ *)

\* loadLocalReminders: a missing (or empty) item leaves reminders as it is;
\* whatever JSON.parse returns is assigned; a text JSON.parse rejects, and
\* null, whose length the next line reads, end in the catch, which resets
\* reminders to []
loadLocalReminders(s) ==
    IF s.store.has /\ s.store.text # <<>>
    THEN LET r == JSONparse(s.store.text)
         IN  IF r.ok /\ r.val # Other([lit |-> "null"]) THEN [s EXCEPT !.reminders = r.val]
             ELSE [s EXCEPT !.reminders = <<>>]
    ELSE s

\* a template literal or new Date() of renderReminders converting the JSON
\* value v to a primitive throws: an object with a member toString has no
\* function to call, and an array joins its elements other than null
RECURSIVE ToStringThrows(_)
ToStringThrows(v) ==
    IF DOMAIN v = {"members"} THEN \E j \in 1..Len(v.members) : v.members[j].key = "toString"
    ELSE IF DOMAIN v = {"elements"}
    THEN \E i \in 1..Len(v.elements) :
             v.elements[i] # [lit |-> "null"] /\ ToStringThrows(v.elements[i])
    ELSE FALSE

\* renderReminders throws a TypeError on rs: a list of reminders is rendered;
\* of the other values, an object of length 0 and a string are taken for a
\* list (an empty one, one of characters), another object, a number and a
\* boolean fail at the spread [...reminders], and an array fails at an
\* element null (reminder.dateTime) or at an object's dateTime, note, repeat
\* or id that does not convert
renderRemindersThrows(rs) ==
    IF ~IsOther(rs) THEN FALSE
    ELSE LET v == rs[1].other
         IN  IF DOMAIN v = {"elements"}
             THEN \E i \in 1..Len(v.elements) :
                      \/ v.elements[i] = [lit |-> "null"]
                      \/ /\ DOMAIN v.elements[i] = {"members"}
                         /\ \E j \in 1..Len(v.elements[i].members) :
                                /\ v.elements[i].members[j].key
                                       \in {"dateTime", "note", "repeat", "id"}
                                /\ ToStringThrows(v.elements[i].members[j].val)
             ELSE IF DOMAIN v = {"members"}
             THEN ~\E j \in 1..Len(v.members) :
                       v.members[j].key = "length" /\ v.members[j].val = [num |-> 0]
             ELSE DOMAIN v \notin {{"str"}, {"date"}}

\* saveLocalReminders: writeOk is FALSE when localStorage.setItem throws
\* (quota exceeded, storage disabled); the error is logged and swallowed
saveLocalReminders(s, writeOk) ==
    IF writeOk THEN [s EXCEPT !.store = Item(JSONstringify(s.reminders))] ELSE s

(* ------------------------------ status UI ------------------------------ *)

updateStatus(s, message, type) ==
    [s EXCEPT !.statusEl = [message |-> message, type |-> type]]

NotificationStatus(cls, text) == [display |-> "block", className |-> cls, text |-> text]

\* a status region that looks at the connection before the permission
updateNotificationUIOfflineFirst(s, perm) ==
    IF perm = "granted" /\ s.enabledItem = "true" /\ s.isOnline
    THEN [s EXCEPT !.notificationSetupEl = "none",
                   !.notificationStatusEl =
                       NotificationStatus("notification-status", "enabled and ready"),
                   !.notificationsEnabled = TRUE]
    ELSE IF ~s.isOnline
    THEN [s EXCEPT !.notificationSetupEl = "none",
                   !.notificationStatusEl =
                       NotificationStatus("notification-status error", "connect to server")]
    ELSE IF perm = "denied"
    THEN [s EXCEPT !.notificationSetupEl = "none",
                   !.notificationStatusEl =
                       NotificationStatus("notification-status error", "blocked")]
    ELSE [s EXCEPT !.notificationSetupEl = "block",
                   !.notificationStatusEl = [@ EXCEPT !.display = "none"],
                   !.btnDisabled = FALSE]

\* updateNotificationUI: perm is Notification.permission at the call
updateNotificationUI(s, perm) ==
    IF perm = "granted" /\ s.enabledItem = "true" /\ s.isOnline
    THEN [s EXCEPT !.notificationSetupEl = "none",
                   !.notificationStatusEl =
                       NotificationStatus("notification-status", "enabled and ready"),
                   !.notificationsEnabled = TRUE]
    ELSE IF perm = "denied"
    THEN [s EXCEPT !.notificationSetupEl = "none",
                   !.notificationStatusEl =
                       NotificationStatus("notification-status error", "blocked")]
    ELSE IF ~s.isOnline
    THEN [s EXCEPT !.notificationSetupEl = "none",
                   !.notificationStatusEl =
                       NotificationStatus("notification-status error", "connect to server")]
    ELSE [s EXCEPT !.notificationSetupEl = "block",
                   !.notificationStatusEl = [@ EXCEPT !.display = "none"],
                   !.btnDisabled = FALSE]

showNotificationError(s, message) ==
    [s EXCEPT !.notificationSetupEl = "none",
              !.notificationStatusEl =
                  NotificationStatus("notification-status error", message)]

(* --------------------------- sync coordinator -------------------------- *)

Request(method, path, body) == [method |-> method, path |-> path, body |-> body]

\* syncWithServer without the in-progress half of its guard
syncWithServerUnguarded(s, waiter) ==
    IF ~s.isOnline THEN s
    ELSE LET s1 == [s EXCEPT !.syncInProgress = TRUE]
             s2 == updateStatus(s1, "Syncing with server...", "syncing")
         IN  [s2 EXCEPT !.sent = Append(@, Request("POST", "/sync-reminders",
                                                   SyncBody(s.reminders))),
                        !.syncs = Append(@, [pc |-> "fetch", waiter |-> waiter])]

\* syncWithServer up to its first await: the guard, the flag, the status line
\* and the POST /sync-reminders request carrying JSON.stringify({ reminders }).
\* waiter names the caller that awaits the returned promise with code after it.
syncWithServer(s, waiter) ==
    IF ~s.isOnline \/ s.syncInProgress THEN s
    ELSE LET s1 == [s EXCEPT !.syncInProgress = TRUE]
             s2 == updateStatus(s1, "Syncing with server...", "syncing")
         IN  [s2 EXCEPT !.sent = Append(@, Request("POST", "/sync-reminders",
                                                   SyncBody(s.reminders))),
                        !.syncs = Append(@, [pc |-> "fetch", waiter |-> waiter])]

\* the request syncWithServer sends for the reminder sequence rs
SyncRequest(rs) == Request("POST", "/sync-reminders", SyncBody(rs))

\* the sequence without its i-th element
RemoveAt(q, i) == [j \in 1..(Len(q) - 1) |-> IF j < i THEN q[j] ELSE q[j + 1]]

\* a catch block that reports the failure but leaves isOnline as it is
syncFailedStillOnline(s, perm) ==
    LET s1 == updateStatus(s, "Sync failed - Working offline", "offline")
        s2 == updateNotificationUI(s1, perm)
    IN  [s2 EXCEPT !.syncInProgress = FALSE]

\* syncWithServer's catch block followed by its finally block
syncFailed(s, perm) ==
    LET s1 == updateStatus(s, "Sync failed - Working offline", "offline")
        s2 == [s1 EXCEPT !.isOnline = FALSE]
        s3 == updateNotificationUI(s2, perm)
    IN  [s3 EXCEPT !.syncInProgress = FALSE]

\* a success path that replays a sync call swallowed while this one was in flight
syncSucceededReplaying(s) ==
    LET s1 == [updateStatus(s, "Online - Synced successfully", "online")
                  EXCEPT !.syncInProgress = FALSE]
    IN  syncWithServer(s1, "none")

\* the end of syncWithServer's try block followed by its finally block
syncSucceeded(s) ==
    [updateStatus(s, "Online - Synced successfully", "online")
        EXCEPT !.syncInProgress = FALSE]

(* ------------------------- connectivity monitor ------------------------ *)

\* connectToServer up to its first await: the status line and GET serverUrl
connectStart(s) ==
    [updateStatus(s, "Connecting...", "offline")
        EXCEPT !.sent = Append(@, Request("GET", "/", <<>>))]

\* a catch block that forgets isOnline = false
connectFailedFlagKept(s, perm) ==
    updateNotificationUI(updateStatus(s, "Offline - Working locally", "offline"), perm)

\* connectToServer's catch block
connectFailed(s, perm) ==
    LET s1 == [s EXCEPT !.isOnline = FALSE]
        s2 == updateStatus(s1, "Offline - Working locally", "offline")
    IN  updateNotificationUI(s2, perm)

\* a success path that goes Online without the sync call
connectSucceededNoSync(s, perm, waiter) ==
    LET s1 == [s EXCEPT !.isOnline = TRUE]
        s2 == updateStatus(s1, "Online - Server connected", "online")
    IN  updateNotificationUI(s2, perm)

\* connectToServer after response.json() resolved, up to await syncWithServer()
connectSucceeded(s, perm, waiter) ==
    LET s1 == [s EXCEPT !.isOnline = TRUE]
        s2 == updateStatus(s1, "Online - Server connected", "online")
        s3 == updateNotificationUI(s2, perm)
    IN  syncWithServer(s3, waiter)

\* window 'offline' listener
offlineListener(s, perm) ==
    LET s1 == [s EXCEPT !.isOnline = FALSE]
        s2 == updateStatus(s1, "Offline - Working locally", "offline")
    IN  updateNotificationUI(s2, perm)

\* the rest of the DOMContentLoaded handler after await connectToServer()
bootFinish(s, perm) == updateNotificationUI([s EXCEPT !.boot = "done"], perm)

(* -------------------------- notification setup ------------------------- *)

\* the messages of the errors enableNotifications throws itself
NoWorkerMessage == "Service Worker not available"
DeniedMessage == "Notification permission denied"
NotConnectedMessage == "Server not connected. Please wait for connection."

\* enableNotifications' catch block: the cause is shown, the button reset
enableFailed(s, message) ==
    [showNotificationError(s, message) EXCEPT !.btnDisabled = FALSE]

\* the message of an error the platform raises: a rejected fetch, json(),
\* pushManager.subscribe or a throwing localStorage.setItem
RejectionMessage == "error.message"

\* a pending enableNotifications: where it waits, and the steps it has done
Setup(pc, done) == [pc |-> pc, done |-> done]

\* the awaits of enableNotifications, in the order of the code
SetupPcs == <<"permission", "vapidFetch", "vapidJson", "subscribe",
              "subscribeFetch", "subscribeJson">>

PcRank(pc) == CHOOSE k \in 1..Len(SetupPcs) : SetupPcs[k] = pc

\* the pending executions q and one more, e: they are told apart by the
\* await they are at only, and are listed by it
Pending(q, e) ==
    LET k == Cardinality({j \in 1..Len(q) : PcRank(q[j].pc) <= PcRank(e.pc)})
    IN  SubSeq(q, 1, k) \o <<e>> \o SubSeq(q, k + 1, Len(q))

\* a setup sequence that writes the stored flag as it asks for the key
enableWithPermissionFlagFirst(s, perm) ==
    IF perm # "granted" THEN enableFailed(s, DeniedMessage)
    ELSE IF ~s.isOnline THEN enableFailed(s, NotConnectedMessage)
    ELSE [s EXCEPT !.sent = Append(@, Request("GET", "/vapid-public-key", <<>>)),
                   !.setups = Pending(@, Setup("vapidFetch", <<>>)),
                   !.enabledItem = "true"]

\* a setup sequence that looks at the connection before the permission
enableWithPermissionOnlineFirst(s, perm) ==
    IF ~s.isOnline THEN enableFailed(s, NotConnectedMessage)
    ELSE IF perm # "granted" THEN enableFailed(s, DeniedMessage)
    ELSE [s EXCEPT !.sent = Append(@, Request("GET", "/vapid-public-key", <<>>)),
                   !.setups = Pending(@, Setup("vapidFetch", <<>>))]

\* enableNotifications from the permission check to await fetch(vapid-public-key);
\* perm is the permission the sequence goes on with
enableWithPermission(s, perm) ==
    IF perm # "granted" THEN enableFailed(s, DeniedMessage)
    ELSE IF ~s.isOnline THEN enableFailed(s, NotConnectedMessage)
    ELSE [s EXCEPT !.sent = Append(@, Request("GET", "/vapid-public-key", <<>>)),
                   !.setups = Pending(@, Setup("vapidFetch", <<>>))]

\* enableNotifications up to its first await: perm is Notification.permission
enableNotifications(s, perm) ==
    LET s1 == [s EXCEPT !.btnDisabled = TRUE]
    IN  IF ~s1.swRegistration THEN enableFailed(s1, NoWorkerMessage)
        ELSE IF perm = "default"
        THEN [s1 EXCEPT !.setups = Pending(@, Setup("permission", <<>>))]
        ELSE enableWithPermission(s1, perm)

\* the i-th pending enableNotifications goes on to wait at pc, having done step
Advance(s, i, pc, step) ==
    [s EXCEPT !.setups = Pending(RemoveAt(@, i),
                                 Setup(pc, Append(s.setups[i].done, step)))]

\* the i-th pending enableNotifications ends
Ended(s, i) == [s EXCEPT !.setups = RemoveAt(@, i)]

\* a setup sequence that takes its last answer for a sign of the server
enableSucceededOnline(s, perm, writeOk) ==
    LET s1 == [s EXCEPT !.notificationsEnabled = TRUE, !.subscriptionActive = TRUE,
                        !.isOnline = TRUE]
    IN  IF writeOk THEN updateNotificationUI([s1 EXCEPT !.enabledItem = "true"], perm)
        ELSE enableFailed(s1, RejectionMessage)

\* enableNotifications after subscribeResponse.json() resolved: the flags, the
\* stored flag (writeOk is FALSE when localStorage.setItem throws, which lands
\* in the catch block) and the status region
enableSucceeded(s, perm, writeOk) ==
    LET s1 == [s EXCEPT !.notificationsEnabled = TRUE, !.subscriptionActive = TRUE]
    IN  IF writeOk THEN updateNotificationUI([s1 EXCEPT !.enabledItem = "true"], perm)
        ELSE enableFailed(s1, RejectionMessage)

(* ---------------------------- reminder edits --------------------------- *)

\* the empty value of a datetime-local input
NoDate == 0

\* an addReminder that leaves the sync to the next trigger
addReminderNoSync(s, dateTime, note, repeat, confirmPast, tcheck, tid, tcreated, writeOk) ==
    IF dateTime = NoDate THEN s
    ELSE IF note = "" THEN s
    ELSE IF dateTime <= tcheck /\ ~confirmPast THEN s
    ELSE LET reminder == [id |-> tid, dateTime |-> dateTime, note |-> note,
                          repeat |-> repeat, created |-> tcreated]
         IN  saveLocalReminders([s EXCEPT !.reminders = Append(@, reminder)], writeOk)

\* addReminder: confirmPast answers the "time is in the past" dialog. The
\* clock is read three times: tcheck is new Date() of the past-time check,
\* tid is Date.now() of the id, tcreated is new Date() of created
addReminder(s, dateTime, note, repeat, confirmPast, tcheck, tid, tcreated, writeOk) ==
    IF dateTime = NoDate THEN s
    ELSE IF note = "" THEN s
    ELSE IF dateTime <= tcheck /\ ~confirmPast THEN s
    ELSE LET reminder == [id |-> tid, dateTime |-> dateTime, note |-> note,
                          repeat |-> repeat, created |-> tcreated]
             s1 == [s EXCEPT !.reminders = Append(@, reminder)]
             s2 == saveLocalReminders(s1, writeOk)
         IN  IF s2.isOnline THEN syncWithServer(s2, "none") ELSE s2

\* Array.prototype.findIndex(r => r.id === id): 0 stands for -1
FindIndex(rs, id) ==
    IF \E i \in 1..Len(rs) : rs[i].id = id
    THEN CHOOSE i \in 1..Len(rs) :
             rs[i].id = id /\ \A j \in 1..(i - 1) : rs[j].id # id
    ELSE 0

editReminder(s, id) ==
    IF FindIndex(s.reminders, id) = 0 THEN s ELSE [s EXCEPT !.editingId = id]

cancelEdit(s) == [s EXCEPT !.editingId = NullId]

\* { ...old, dateTime, note, repeat, modified }
EditedReminder(old, dateTime, note, repeat, tnow) ==
    [f \in DOMAIN old \cup {"modified"} |->
        CASE f = "dateTime" -> dateTime
          [] f = "note" -> note
          [] f = "repeat" -> repeat
          [] f = "modified" -> tnow
          [] OTHER -> old[f]]

saveEdit(s, dateTime, note, repeat, tnow, writeOk) ==
    IF dateTime = NoDate \/ note = "" THEN s
    ELSE LET reminderIndex == FindIndex(s.reminders, s.editingId)
         IN  IF reminderIndex = 0 THEN s
             ELSE LET s1 == [s EXCEPT !.reminders[reminderIndex] =
                                EditedReminder(@, dateTime, note, repeat, tnow)]
                      s2 == saveLocalReminders(s1, writeOk)
                      s3 == cancelEdit(s2)
                  IN  IF s3.isOnline THEN syncWithServer(s3, "none") ELSE s3

\* a deleteReminder that saves only on its way to the server
deleteReminderSaveOnline(s, id, confirmed, writeOk) ==
    IF FindIndex(s.reminders, id) = 0 THEN s
    ELSE IF ~confirmed THEN s
    ELSE LET s1 == [s EXCEPT !.reminders = SelectSeq(@, LAMBDA r : r.id # id)]
         IN  IF s1.isOnline THEN syncWithServer(saveLocalReminders(s1, writeOk), "none")
             ELSE s1

\* deleteReminder: confirmed answers the confirm dialog
deleteReminder(s, id, confirmed, writeOk) ==
    IF FindIndex(s.reminders, id) = 0 THEN s
    ELSE IF ~confirmed THEN s
    ELSE LET s1 == [s EXCEPT !.reminders = SelectSeq(@, LAMBDA r : r.id # id)]
             s2 == saveLocalReminders(s1, writeOk)
         IN  IF s2.isOnline THEN syncWithServer(s2, "none") ELSE s2

(* --------------------------- retention sweep --------------------------- *)

\* the comparison with >= in the place of >
HoursAgoAtLeast(tnow, reminderTime, hours) == tnow - reminderTime >= hours * HourMs

\* hoursAgo > 24 with hoursAgo = (now - reminderTime) / (1000 * 60 * 60): the
\* quotient exceeds 24 exactly when the difference exceeds 24 hours in ms
HoursAgoOver(tnow, reminderTime, hours) == tnow - reminderTime > hours * HourMs

\* the filter predicate of cleanupPastReminders
KeptBySweep(r, tnow) ==
    ~(r.repeat = "once" /\ HoursAgoOver(tnow, r.dateTime, RetentionHours))

\* a sweep that filters the list and does not save it
cleanupPastRemindersNoSave(s, tnow, writeOk) ==
    [s EXCEPT !.reminders = SelectSeq(@, LAMBDA r : KeptBySweep(r, tnow))]

cleanupPastReminders(s, tnow, writeOk) ==
    LET beforeCount == Len(s.reminders)
        s1 == [s EXCEPT !.reminders = SelectSeq(@, LAMBDA r : KeptBySweep(r, tnow))]
        afterCount == Len(s1.reminders)
    IN  IF beforeCount # afterCount THEN saveLocalReminders(s1, writeOk) ELSE s1

(* ------------------------------- inputs -------------------------------- *)

\* what the user types into the add form and the edit form
\* (the past time comes with the answer to the "add anyway?" dialog)
AddInputs ==
    {[dateTime |-> Now0 - RetentionHours * HourMs, note |-> "a", repeat |-> "once",
      confirmPast |-> TRUE],
     [dateTime |-> Now0 - RetentionHours * HourMs, note |-> "a", repeat |-> "once",
      confirmPast |-> FALSE],
     [dateTime |-> Now0 + HourMs, note |-> "", repeat |-> "once", confirmPast |-> TRUE]}
EditInputs ==
    {[dateTime |-> Now0 + HourMs, note |-> "c", repeat |-> "daily"],
     [dateTime |-> NoDate, note |-> "c", repeat |-> "once"]}

\* a reminder left by an earlier session: once, and out of the retention window
PriorReminder ==
    [id |-> Now0 - 30 * HourMs, dateTime |-> Now0 - 25 * HourMs, note |-> "p",
     repeat |-> "once", created |-> Now0 - 30 * HourMs]

\* a stored text cut short, which JSON.parse rejects
CorruptText == <<P("["), P("{"), Key("id")>>

\* localStorage when the page starts: what it holds under 'simple_reminders',
\* and whether it takes writes in this session (it does not in a private
\* window of some browsers, or with the quota used up)
InitialStorage ==
    {[item |-> NoItem, writable |-> TRUE],
     [item |-> Item(CorruptText), writable |-> TRUE],
     [item |-> Item(JSONstringify(<<PriorReminder>>)), writable |-> TRUE],
     [item |-> NoItem, writable |-> FALSE]}

Outcomes == {"ok", "status", "error"}   \* 2xx, non-2xx, fetch rejected

(* -------------------------------- Init --------------------------------- *)

Init ==
    /\ reminders = <<>>
    /\ isOnline = FALSE
    /\ editingId = NullId
    /\ syncInProgress = FALSE
    /\ swRegistration = FALSE
    /\ notificationsEnabled = FALSE
    /\ subscriptionActive = FALSE
    /\ \E st \in InitialStorage : store = st.item /\ storageWritable = st.writable
    /\ enabledItem = "absent"
    /\ statusEl = [message |-> "", type |-> ""]
    /\ notificationSetupEl = "initial"
    /\ notificationStatusEl = [display |-> "initial", className |-> "", text |-> ""]
    /\ btnDisabled = FALSE
    /\ permission = "default"
    /\ now = Now0
    /\ edits = 0
    /\ boot = "init"
    /\ cleanupPending = TRUE
    /\ probes = [fetch |-> 0, json |-> 0]
    /\ syncs = <<>>
    /\ setups = <<>>
    /\ sent = <<>>
    /\ handled = "other"
    /\ unsynced = FALSE
    /\ WorkerAsleep(FALSE, <<>>, <<>>)
    /\ reachable = FALSE

(* ------------------------------- actions ------------------------------- *)

\* the POST /sync-reminders requests among the requests q
Posts(q) == SelectSeq(q, LAMBDA r : r.method = "POST" /\ r.path = "/sync-reminders")

\* the tasks that changed the list on the user's behalf
EditLabels == {"add", "save", "delete"}

\* A task that ends in state s, having read the clock at tnow.  label names
\* the task: "probe ok" and "probe failed" (a connectToServer call ended its
\* try block or its catch block), "sync ok" and "sync failed" (likewise for
\* syncWithServer), "offline" (the offline listener), "retry" (a tick of the
\* interval timer that started a probe), "add", "save" and
\* "delete" (the handler ran past its early returns), "sweep", or "other".
\* unsynced is set by an edit made while Online that sent no request, and
\* cleared by every POST /sync-reminders sent and by connectivity going
\* Offline.  A task that changes nothing and sends nothing leaves no trace:
\* sent and handled keep describing the last task that did.
TaskAt(s, label, tnow) ==
    IF s = Cur THEN UNCHANGED vars
    ELSE /\ Commit(s)
         /\ handled' = label
         /\ unsynced' = IF Posts(s.sent) # <<>> \/ ~s.isOnline THEN FALSE
                        ELSE IF label \in EditLabels THEN TRUE
                        ELSE unsynced
         /\ edits' = IF label \in EditLabels THEN edits + 1 ELSE edits
         /\ now' = IF s.reminders # reminders THEN tnow ELSE now
         /\ UNCHANGED <<permission, storageWritable>>

\* a task that does not read the clock
Task(s, label) == TaskAt(s, label, now)

\* the label of an edit handler that ended in state s
EditLabel(s, name) == IF s = Cur THEN "other" ELSE name

\* the clock reads the last instant that went into the list, or a later one
Elapsed == {0, 1}

\* Date.now() in an edit handler: the millisecond of the last reading that
\* went into the list, read once more, or a later one. The equal reading is
\* what gives a new reminder the id of one of the list, or the id the edit
\* form is still open on after its reminder was deleted or swept
EditReadings == {now + dt : dt \in Elapsed}

\* the three readings of the clock in addReminder, in order: the check is
\* made in the id's millisecond or in the one before (the dialog may stand
\* in between), created is read in the id's millisecond or the next
AddReadings ==
    {t \in [check : EditReadings, id : EditReadings,
            created : {i + d : i \in EditReadings, d \in {0, 1}}] :
        t.check <= t.id /\ t.id <= t.created /\ t.created <= t.id + 1}

\* new Date() in the sweep
SweepReadings == {now + dt : dt \in Elapsed}

Started == boot # "init"

\* the DOMContentLoaded handler up to its first await: the list is loaded
\* and rendered, and where renderReminders throws the handler ends there,
\* its promise rejected; then await setupServiceWorker(), which without
\* service worker support returns at once, so that the handler goes on to
\* await connectToServer()
domContentLoaded(s, swSupported) ==
    LET s1 == loadLocalReminders(s)
    IN  IF renderRemindersThrows(s1.reminders) THEN [s1 EXCEPT !.boot = "failed"]
        ELSE IF swSupported THEN [s1 EXCEPT !.boot = "sw"]
        ELSE [connectStart(showNotificationError(s1,
                  "Service Workers not supported in this browser"))
                EXCEPT !.boot = "probeFetch"]

\* document 'DOMContentLoaded'
DOMContentLoaded(swSupported) ==
    /\ boot = "init"
    /\ Task(domContentLoaded(Cur, swSupported), "other")

\* navigator.serviceWorker.register settles; the handler goes on to connectToServer
SetupServiceWorkerSettled(registered) ==
    /\ boot = "sw"
    /\ LET s1 == IF registered THEN [Cur EXCEPT !.swRegistration = TRUE]
                 ELSE showNotificationError(Cur, "Service Worker registration failed")
       IN  Task([connectStart(s1) EXCEPT !.boot = "probeFetch"], "other")

\* a pending probe of the timer or of an online event leaves the stage it is at
Leave(s, stage) == [s EXCEPT !.probes[stage] = @ - 1]

\* fetch(serverUrl) of the start-up probe settles
BootProbeResponse(outcome) ==
    /\ boot = "probeFetch"
    /\ IF outcome = "ok" THEN Task([Cur EXCEPT !.boot = "probeJson"], "other")
       ELSE Task(bootFinish(connectFailed(Cur, permission), permission), "probe failed")

\* response.json() of the start-up probe settles
BootProbeBody(parsed) ==
    /\ boot = "probeJson"
    /\ IF parsed
       THEN LET s1 == connectSucceeded(Cur, permission, "boot")
            IN  IF Len(s1.syncs) > Len(syncs)
                THEN Task([s1 EXCEPT !.boot = "sync"], "probe ok")
                ELSE Task(bootFinish(s1, permission), "probe ok")
       ELSE Task(bootFinish(connectFailed(Cur, permission), permission), "probe failed")

\* fetch(serverUrl) of another probe settles
ProbeResponse(outcome) ==
    /\ probes.fetch > 0
    /\ IF outcome = "ok"
       THEN Task([Leave(Cur, "fetch") EXCEPT !.probes.json = @ + 1], "other")
       ELSE Task(connectFailed(Leave(Cur, "fetch"), permission), "probe failed")

\* response.json() of another probe settles
ProbeBody(parsed) ==
    /\ probes.json > 0
    /\ IF parsed
       THEN Task(connectSucceeded(Leave(Cur, "json"), permission, "none"), "probe ok")
       ELSE Task(connectFailed(Leave(Cur, "json"), permission), "probe failed")

\* what runs when the i-th pending syncWithServer returns: its entry goes, and
\* the DOMContentLoaded handler resumes if it awaited this call
Returned(s, i) ==
    LET s1 == [s EXCEPT !.syncs = RemoveAt(@, i)]
    IN  IF s.syncs[i].waiter = "boot" THEN bootFinish(s1, permission) ELSE s1

\* fetch(serverUrl + '/sync-reminders') settles
SyncResponse(i, outcome) ==
    /\ i \in 1..Len(syncs)
    /\ syncs[i].pc = "fetch"
    /\ IF outcome = "ok" THEN Task([Cur EXCEPT !.syncs[i].pc = "json"], "other")
       ELSE Task(Returned(syncFailed(Cur, permission), i), "sync failed")

\* response.json() of the sync response settles
SyncJson(i, parsed) ==
    /\ i \in 1..Len(syncs)
    /\ syncs[i].pc = "json"
    /\ IF parsed THEN Task(Returned(syncSucceeded(Cur), i), "sync ok")
       ELSE Task(Returned(syncFailed(Cur, permission), i), "sync failed")

\* a new connectToServer call of the timer or of an online event
NewProbe(s) == [connectStart(s) EXCEPT !.probes.fetch = @ + 1]

\* a timer callback that probes whatever the flag says
retryTimerAlways(s) == NewProbe(s)

\* the callback of setInterval(..., 30000): a probe if isOnline is false
retryTimer(s) == IF ~s.isOnline THEN NewProbe(s) ELSE s

\* the interval timer fires (a tick while Online changes nothing)
RetryTimer ==
    /\ Started
    /\ probes.fetch + probes.json < MaxProbes
    /\ Task(retryTimer(Cur), "retry")

\* window 'online'
OnlineEvent ==
    /\ Started
    /\ probes.fetch + probes.json < MaxProbes
    /\ Task(NewProbe(Cur), "other")

\* window 'offline'
OfflineEvent ==
    /\ Started
    /\ Task(offlineListener(Cur, permission), "offline")

\* document 'visibilitychange'
VisibilityChange(hidden) ==
    /\ Started
    /\ IF ~hidden /\ isOnline /\ ~syncInProgress
       THEN Task(syncWithServer(Cur, "none"), "other")
       ELSE Task(Cur, "other")

AddReminder(in, t) ==
    /\ Started
    /\ edits < MaxEdits
    /\ LET s1 == addReminder(Cur, in.dateTime, in.note, in.repeat, in.confirmPast,
                             t.check, t.id, t.created, storageWritable)
       IN  TaskAt(s1, EditLabel(s1, "add"), t.created)

EditReminder(id) ==
    /\ Started
    /\ Task(editReminder(Cur, id), "other")

SaveEdit(in, tnow) ==
    /\ Started
    /\ edits < MaxEdits
    /\ LET s1 == saveEdit(Cur, in.dateTime, in.note, in.repeat, tnow, storageWritable)
       IN  TaskAt(s1, EditLabel(s1, "save"), tnow)

CancelEdit ==
    /\ Started
    /\ Task(cancelEdit(Cur), "other")

DeleteReminder(id, confirmed) ==
    /\ Started
    /\ edits < MaxEdits
    /\ LET s1 == deleteReminder(Cur, id, confirmed, storageWritable)
       IN  Task(s1, EditLabel(s1, "delete"))

\* setTimeout(cleanupPastReminders, 2000)
CleanupTimeout(tnow) ==
    /\ Started
    /\ cleanupPending
    /\ TaskAt(cleanupPastReminders([Cur EXCEPT !.cleanupPending = FALSE], tnow,
                                   storageWritable), "sweep", tnow)

\* the debounced auto-save of the note fields fires
DebouncedSave ==
    /\ Started
    /\ Task(saveLocalReminders(Cur, storageWritable), "other")

Ids == {reminders[i].id : i \in 1..Len(reminders)}

Next ==
    \/ DOMContentLoaded(TRUE)
    \/ SetupServiceWorkerSettled(TRUE)
    \/ \E o \in Outcomes : BootProbeResponse(o)
    \/ \E b \in BOOLEAN : BootProbeBody(b)
    \/ \E o \in Outcomes : ProbeResponse(o)
    \/ \E b \in BOOLEAN : ProbeBody(b)
    \/ \E i \in 1..Len(syncs), o \in Outcomes : SyncResponse(i, o)
    \/ \E i \in 1..Len(syncs), b \in BOOLEAN : SyncJson(i, b)
    \/ RetryTimer
    \/ OnlineEvent
    \/ OfflineEvent
    \/ \E h \in BOOLEAN : VisibilityChange(h)
    \/ \E in \in AddInputs, t \in AddReadings : AddReminder(in, t)
    \/ \E id \in Ids : EditReminder(id)
    \/ \E in \in EditInputs, tnow \in EditReadings : SaveEdit(in, tnow)
    \/ CancelEdit
    \/ \E id \in Ids, c \in BOOLEAN : DeleteReminder(id, c)
    \/ \E tnow \in SweepReadings : CleanupTimeout(tnow)
    \/ DebouncedSave

Spec == Init /\ [][Next]_vars

(* ------------------- the sync coordinator's guarantees ------------------ *)

\* the sync requests in flight: the pending syncWithServer executions whose
\* fetch has not settled
InFlight == {i \in 1..Len(syncs) : syncs[i].pc = "fetch"}

\* C1: whatever the interleaving of sync triggers, at most one POST
\* /sync-reminders request started by syncWithServer is in flight at any time
\* (and at most one syncWithServer execution is pending, which is the one the
\* in-progress flag stands for).
C1_AtMostOneSyncInFlight ==
    /\ Cardinality(InFlight) <= 1
    /\ Len(syncs) <= 1
    /\ syncInProgress <=> Len(syncs) = 1

\* an edit made while Online met a sync in flight: the second trigger sent nothing
C1_Witness == syncInProgress /\ unsynced /\ Cardinality(InFlight) = 1

\* C2: a syncWithServer call made while a sync is in flight changes nothing
\* (reminders, the stored item, isOnline and syncInProgress included) and sends
\* nothing; the call is not queued, and the task that ends the sync in flight
\* does not replay it: it sends no request.
C2_CallInFlightIsNoOp ==
    /\ syncInProgress =>
           \A w \in {"none", "boot"} : syncWithServer(Cur, w) = Cur
    /\ handled \in {"sync ok", "sync failed"} => sent = <<>> /\ syncs = <<>>

\* a sync ended well after an edit had called syncWithServer during its flight
C2_Witness == unsynced /\ handled = "sync ok" /\ isOnline /\ ~syncInProgress

C4_ReconnectAlwaysSyncs ==
    [][(handled' = "probe ok" /\ ~isOnline /\ isOnline')
           => Posts(sent') = <<SyncRequest(reminders')>>]_vars

\* C4 as amended: a probe that ends well and takes isOnline from FALSE to TRUE
\* while no sync is in flight sends exactly one POST /sync-reminders, carrying
\* the whole of reminders at that moment; while a sync is in flight it sends
\* none.
C4_ReconnectSyncsUnlessInFlight ==
    [][(handled' = "probe ok" /\ ~isOnline /\ isOnline')
           => /\ reminders' = reminders
              /\ Posts(sent') = IF syncInProgress THEN <<>>
                                ELSE <<SyncRequest(reminders')>>]_vars

\* the list changed while Offline and a later probe sent it whole
C4_Witness ==
    /\ handled = "probe ok"
    /\ edits > 0
    /\ reminders # <<>>
    /\ Posts(sent) = <<SyncRequest(reminders)>>

(* --------------------- edits, offline and online ----------------------- *)

\* the step is an add, update or delete that ran past its early returns
EditStep == edits' = edits + 1

\* what the edit of this step did to the list: an add appended one reminder,
\* a delete removed at least one, an update kept the length and stamped the
\* edited reminder with the time of the edit
EditApplied ==
    /\ handled' = "add" =>
           /\ Len(reminders') = Len(reminders) + 1
           /\ SubSeq(reminders', 1, Len(reminders)) = reminders
    /\ handled' = "delete" => Len(reminders') < Len(reminders)
    /\ handled' = "save" =>
           /\ Len(reminders') = Len(reminders)
           /\ \E i \in 1..Len(reminders') :
                  "modified" \in DOMAIN reminders'[i] /\ reminders'[i].modified = now'

\* C5 as claimed: an add, update or delete made while isOnline is FALSE
\* changes reminders and the stored item at once and sends no request; and a
\* POST /sync-reminders is only ever sent at a moment when isOnline is TRUE.
C5_OfflineEditIsLocal ==
    [][/\ (EditStep /\ ~isOnline) =>
              /\ EditApplied
              /\ store' = Item(JSONstringify(reminders'))
              /\ sent' = <<>> /\ syncs' = syncs
       /\ Posts(sent') # <<>> => isOnline']_vars

\* C5 as amended: an add, update or delete made while isOnline is FALSE
\* changes reminders at once and, given the storage write does not fail, the
\* stored item with it (a failed write leaves the stored item as it was); it
\* sends no request; and a POST /sync-reminders is only ever sent at a moment
\* when isOnline is TRUE.
C5_OfflineEditIsLocalIfWritable ==
    [][/\ (EditStep /\ ~isOnline) =>
              /\ EditApplied
              /\ store' = IF storageWritable THEN Item(JSONstringify(reminders'))
                          ELSE store
              /\ sent' = <<>> /\ syncs' = syncs
       /\ Posts(sent') # <<>> => isOnline']_vars

\* a reminder was deleted while Offline, and the stored list lost it
C5_Witness ==
    /\ handled = "delete" /\ ~isOnline /\ edits > 0
    /\ reminders = <<>> /\ store = Item(JSONstringify(<<>>)) /\ sent = <<>>

\* no asynchronous work is pending: no probe, no sync, and start-up is over
Quiescent == syncs = <<>> /\ probes.fetch + probes.json = 0 /\ boot = "done"

\* C6 as claimed: every add, update or delete made while isOnline is TRUE is
\* followed by a POST /sync-reminders carrying the list as the edit left it,
\* with no later trigger assumed, also when the edit met a sync in flight.
\* Stated for the runs in which everything pending has settled well: there,
\* with isOnline TRUE ever since the edit, no such edit is left unsent.
C6_OnlineEditSyncedWithoutTrigger == ~(unsynced /\ isOnline /\ Quiescent)

\* C6 as amended: an add, update or delete made while isOnline is TRUE and no
\* sync is in flight sends, before the handler returns, one POST
\* /sync-reminders carrying the list as the edit left it; one made while a
\* sync is in flight sends nothing and starts nothing (its list goes out only
\* with a later trigger).
C6_OnlineEditSyncsUnlessInFlight ==
    [][(EditStep /\ isOnline) =>
           /\ EditApplied
           /\ IF syncInProgress THEN sent' = <<>> /\ syncs' = syncs
              ELSE /\ sent' = <<SyncRequest(reminders')>>
                   /\ Len(syncs') = Len(syncs) + 1]_vars

\* an edit made while Online with no sync in flight sent its list
C6_Witness ==
    /\ handled \in EditLabels /\ isOnline /\ ~unsynced
    /\ sent = <<SyncRequest(reminders)>> /\ Cardinality(InFlight) = 1

\* C7: when a POST /sync-reminders fails (fetch rejected, a non-2xx answer or
\* a body that does not parse), isOnline becomes FALSE, reminders and the
\* stored item are unchanged, syncInProgress is released, and the task sends
\* no request and leaves no sync pending; the probes pending are those that
\* were.  From then on, while isOnline is FALSE, a request is sent only by the
\* retry timer or an online event starting a probe (GET /), or by such a
\* probe ending well (POST /sync-reminders).
C7_SyncFailureGoesOffline ==
    [][/\ handled' = "sync failed" =>
              /\ ~isOnline' /\ ~syncInProgress'
              /\ reminders' = reminders /\ store' = store
              /\ sent' = <<>> /\ syncs' = <<>> /\ probes' = probes
       /\ (~isOnline /\ boot \notin {"init", "sw"} /\ sent' # <<>>) =>
              \/ /\ sent' = <<Request("GET", "/", <<>>)>>
                 /\ probes'.fetch = probes.fetch + 1
              \/ handled' = "probe ok" /\ Posts(sent') = sent']_vars

\* a sync failed with reminders in the list
C7_Witness ==
    handled = "sync failed" /\ reminders # <<>> /\ ~isOnline /\ ~syncInProgress

\* what loadLocalReminders makes of a stored item at the start of a session
LoadedFrom(item) ==
    loadLocalReminders([Cur EXCEPT !.reminders = <<>>, !.store = item]).reminders

\* C8: given the storage write does not fail, after every event handler the
\* stored list is the list in memory (a load would return reminders), and
\* after an add, update or delete the stored text is the text of reminders.
C8_StoredListIsCurrent ==
    (storageWritable /\ Started) =>
        /\ LoadedFrom(store) = reminders
        /\ handled \in EditLabels => store = Item(JSONstringify(reminders))

\* the sweep alone changed the list, and the stored text followed
C8_Witness ==
    /\ handled = "sweep" /\ edits = 0 /\ now # Now0
    /\ store = Item(JSONstringify(reminders))

(* ------------------ the store on its own: save and load ----------------- *)

\* the reminders a list is drawn from: as addReminder makes them, and as
\* saveEdit leaves them
Templates ==
    LET added == {[id |-> Now0, dateTime |-> d, note |-> "a", repeat |-> r,
                   created |-> Now0] : d \in DateTimes, r \in Repeats}
    IN  added \cup {EditedReminder(r, r.dateTime, "b", r.repeat, Now0) : r \in added}

\* the list q with the ids addReminder gave its reminders, one per instant, in
\* the order they were pushed
Stamped(q) ==
    [i \in 1..Len(q) |->
        [q[i] EXCEPT !.id = Now0 - 30 * HourMs + i, !.created = Now0 - 30 * HourMs + i]]

\* the lists of at most MaxLen reminders
ReminderLists == {Stamped(q) : q \in UNION {[1..n -> Templates] : n \in 0..MaxLen}}

\* a session past start-up with nothing pending and the list rs in memory
IdleApp(rs, item, writable) ==
    /\ reminders = rs
    /\ store = item
    /\ storageWritable = writable
    /\ isOnline = FALSE /\ editingId = NullId /\ syncInProgress = FALSE
    /\ swRegistration = TRUE /\ notificationsEnabled = FALSE
    /\ subscriptionActive = FALSE /\ enabledItem = "absent"
    /\ statusEl = [message |-> "Offline - Working locally", type |-> "offline"]
    /\ notificationSetupEl = "none"
    /\ notificationStatusEl =
           NotificationStatus("notification-status error", "connect to server")
    /\ btnDisabled = FALSE /\ permission = "default"
    /\ now = Now0 /\ edits = 0 /\ boot = "done" /\ cleanupPending = TRUE
    /\ probes = [fetch |-> 0, json |-> 0] /\ syncs = <<>> /\ setups = <<>>
    /\ sent = <<>>
    /\ handled = "other" /\ unsynced = FALSE
    /\ reachable = FALSE

\* the same, the worker having been handed no event
Idle(rs, item, writable) == IdleApp(rs, item, writable) /\ WorkerAsleep(FALSE, <<>>, <<>>)

\* a step of the store or of the sweep on its own, ending in state s
Alone(s, label) ==
    /\ Commit(s)
    /\ handled' = label
    /\ UNCHANGED <<unsynced, edits, permission, storageWritable>>

StoreInit == \E rs \in ReminderLists : Idle(rs, NoItem, TRUE)

\* saveLocalReminders()
StoreSave == Alone(saveLocalReminders(Cur, storageWritable), "saved") /\ now' = now

\* app.js evaluated anew over the localStorage of s: the module's variables
\* and the page are as at the start, the items stored are those of s
FreshPage(s) ==
    [s EXCEPT !.reminders = <<>>, !.isOnline = FALSE, !.editingId = NullId,
              !.syncInProgress = FALSE, !.swRegistration = FALSE,
              !.notificationsEnabled = FALSE, !.subscriptionActive = FALSE,
              !.statusEl = [message |-> "", type |-> ""],
              !.notificationSetupEl = "initial",
              !.notificationStatusEl = [display |-> "initial", className |-> "",
                                        text |-> ""],
              !.btnDisabled = FALSE, !.boot = "init", !.cleanupPending = TRUE,
              !.probes = [fetch |-> 0, json |-> 0], !.syncs = <<>>,
              !.setups = <<>>]

\* the page is opened again: the DOMContentLoaded task of the new page runs
\* loadLocalReminders and stops at await setupServiceWorker()
StoreLoad ==
    Alone(domContentLoaded(FreshPage(Cur), TRUE), "loaded") /\ now' = now

\* where a write cut short leaves off: after the first token, halfway, and
\* before the last token
Cuts(text) == {1, Len(text) \div 2, Len(text) - 1}

\* the stored text loses its end
StoreTruncated(k) ==
    /\ store.has
    /\ k \in 1..(Len(store.text) - 1)
    /\ Alone([Cur EXCEPT !.store = Item(SubSeq(store.text, 1, k))], "damaged")
    /\ now' = now

\* well-formed texts that are no list of reminders: an object, a number,
\* null, a list holding null
ForeignTexts ==
    {<<P("{"), P("}")>>, <<[num |-> 5]>>, <<[lit |-> "null"]>>,
     <<P("["), [lit |-> "null"], P("]")>>}

\* the item is written by something other than this version of the
\* application: another page of the origin, an earlier version, the user
StoreForeign(text) ==
    /\ Alone([Cur EXCEPT !.store = Item(text)], "foreign")
    /\ now' = now

\* the user clears the site's data
StoreCleared ==
    /\ store.has
    /\ Alone([Cur EXCEPT !.store = NoItem], "cleared")
    /\ now' = now

StoreNext ==
    \/ StoreSave
    \/ StoreLoad
    \/ \E k \in Cuts(store.text) : StoreTruncated(k)
    \/ \E text \in ForeignTexts : StoreForeign(text)
    \/ StoreCleared

StoreSpec == StoreInit /\ [][StoreNext]_vars

\* C9 as claimed: a load right after a save returns the list that was saved,
\* whatever the list (the empty one included); a load that finds no stored
\* item, or a stored text that is not the text of a list of reminders (one
\* cut short, or one of another shape), returns the empty list and start-up
\* goes on.
C9_LoadReturnsSaved ==
    [][handled' = "loaded" =>
           /\ handled = "saved" => reminders' = reminders /\ store' = store
           /\ (~store.has \/ handled \in {"damaged", "foreign"}) =>
                  reminders' = <<>> /\ boot' # "failed"]_vars

(* ------------------------- the sweep on its own ------------------------ *)

SweepInit ==
    \E rs \in ReminderLists, w \in BOOLEAN : Idle(rs, Item(JSONstringify(rs)), w)

\* setTimeout(cleanupPastReminders, 2000) fires; now becomes the sweep's
\* reading of the clock
Sweep(tnow) ==
    /\ cleanupPending
    /\ Alone(cleanupPastReminders([Cur EXCEPT !.cleanupPending = FALSE], tnow,
                                  storageWritable), "sweep")
    /\ now' = tnow

SweepNext == \E tnow \in SweepReadings : Sweep(tnow)

SweepSpec == SweepInit /\ [][SweepNext]_vars

\* the positions of rs a sweep at tnow keeps: a recurring reminder, or one
\* scheduled no earlier than 24 hours before tnow
KeptPositions(rs, tnow) ==
    {i \in 1..Len(rs) : rs[i].repeat # "once" \/ rs[i].dateTime >= tnow - 24 * 3600000}

\* the j-th smallest member of the set of numbers S
Nth(S, j) == CHOOSE i \in S : Cardinality({k \in S : k <= i}) = j

\* C10: the sweep removes exactly the 'once' reminders scheduled strictly more
\* than 24 hours before the sweep time: one scheduled exactly 24 hours before
\* is kept, recurring reminders are kept whatever their age, and the kept
\* reminders are unchanged and in their order.
C10_SweepRemovesExactlyExpired ==
    [][handled' = "sweep" =>
           LET kept == KeptPositions(reminders, now')
           IN  /\ Len(reminders') = Cardinality(kept)
               /\ \A j \in 1..Len(reminders') : reminders'[j] = reminders[Nth(kept, j)]]_vars

\* a sweep kept a 'once' reminder scheduled exactly 24 hours before it and
\* removed another (the store, which takes no writes, still has the old list)
C10_Witness ==
    /\ handled = "sweep" /\ ~storageWritable
    /\ \E i \in 1..Len(reminders) :
           reminders[i].repeat = "once" /\ now - reminders[i].dateTime = 24 * 3600000
    /\ Len(LoadedFrom(store)) > Len(reminders)

(* ---------------------- notification setup: actions --------------------- *)

\* the VAPID public key the server hands out
VapidKey == "vapid key"

\* the descriptor of the subscription pushManager.subscribe creates with key
Subscription(key) == <<"subscription", key>>

\* what Notification.requestPermission() can resolve to
PermissionAnswers == {"granted", "denied", "default"}

\* a task of the setup sequence that ended in state s, the permission being perm
SetupTask(s, label, perm) ==
    /\ Commit(s)
    /\ handled' = label
    /\ permission' = perm
    /\ UNCHANGED <<unsynced, edits, now, storageWritable>>

\* the label of a task of the setup sequence that ended in state s, pending
\* being the executions that were pending beside it: the task aborted when it
\* left through the catch block, which leaves no execution behind
SetupLabel(s, pending, name, aborted) ==
    IF Len(s.setups) > pending THEN name ELSE aborted

\* 'click' on enableNotificationsBtn: the listener is attached once start-up
\* is over, and a hidden or disabled button takes no click
EnableClick ==
    /\ boot = "done"
    /\ notificationSetupEl = "block"
    /\ ~btnDisabled
    /\ Len(setups) < MaxSetups
    /\ LET s1 == enableNotifications(Cur, permission)
       IN  SetupTask(s1, SetupLabel(s1, Len(setups), "enable", "enable aborted"),
                     permission)

\* Notification.requestPermission() resolves
PermissionAnswered(i, answer) ==
    /\ i \in 1..Len(setups)
    /\ setups[i].pc = "permission"
    /\ LET s1 == enableWithPermission(Ended(Cur, i), answer)
       IN  SetupTask(s1, SetupLabel(s1, Len(setups) - 1, "permission",
                                    "permission aborted"), answer)

\* fetch(serverUrl + '/vapid-public-key') settles
VapidResponse(i, outcome) ==
    /\ i \in 1..Len(setups)
    /\ setups[i].pc = "vapidFetch"
    /\ IF outcome = "ok"
       THEN SetupTask(Advance(Cur, i, "vapidJson", "vapid ok"), "vapid", permission)
       ELSE SetupTask(enableFailed(Ended(Cur, i),
                          IF outcome = "status" THEN "VAPID endpoint failed"
                          ELSE RejectionMessage), "setup aborted", permission)

\* vapidResponse.json() settles; with the key, pushManager.subscribe is called
VapidJson(i, parsed) ==
    /\ i \in 1..Len(setups)
    /\ setups[i].pc = "vapidJson"
    /\ IF parsed
       THEN SetupTask(Advance(Cur, i, "subscribe", "key read"), "vapid json", permission)
       ELSE SetupTask(enableFailed(Ended(Cur, i), RejectionMessage),
                      "setup aborted", permission)

\* pushManager.subscribe settles; with the subscription, POST /subscribe is sent
Subscribed(i, created) ==
    /\ i \in 1..Len(setups)
    /\ setups[i].pc = "subscribe"
    /\ IF created
       THEN SetupTask([Advance(Cur, i, "subscribeFetch", "subscribed")
                          EXCEPT !.sent = Append(@, Request("POST", "/subscribe",
                                                         Subscription(VapidKey)))],
                      "subscribed", permission)
       ELSE SetupTask(enableFailed(Ended(Cur, i), RejectionMessage),
                      "setup aborted", permission)

\* fetch(serverUrl + '/subscribe') settles
SubscribeResponse(i, outcome) ==
    /\ i \in 1..Len(setups)
    /\ setups[i].pc = "subscribeFetch"
    /\ IF outcome = "ok"
       THEN SetupTask(Advance(Cur, i, "subscribeJson", "subscribe ok"),
                      "subscribe response", permission)
       ELSE SetupTask(enableFailed(Ended(Cur, i),
                          IF outcome = "status" THEN "Subscription failed"
                          ELSE RejectionMessage), "setup aborted", permission)

\* subscribeResponse.json() settles
SubscribeJson(i, parsed) ==
    /\ i \in 1..Len(setups)
    /\ setups[i].pc = "subscribeJson"
    /\ IF parsed
       THEN LET s1 == enableSucceeded(Ended(Cur, i), permission, storageWritable)
            IN  SetupTask(s1, IF s1.enabledItem = "true" /\ storageWritable
                              THEN "setup done" ELSE "setup aborted", permission)
       ELSE SetupTask(enableFailed(Ended(Cur, i), RejectionMessage),
                      "setup aborted", permission)

\* a session starts: the permission and the stored flag are what earlier
\* sessions left
NotifyInit ==
    /\ reminders = <<>>
    /\ isOnline = FALSE
    /\ editingId = NullId
    /\ syncInProgress = FALSE
    /\ swRegistration = FALSE
    /\ notificationsEnabled = FALSE
    /\ subscriptionActive = FALSE
    /\ store = NoItem
    /\ storageWritable \in BOOLEAN
    /\ enabledItem \in {"absent", "true"}
    /\ statusEl = [message |-> "", type |-> ""]
    /\ notificationSetupEl = "initial"
    /\ notificationStatusEl = [display |-> "initial", className |-> "", text |-> ""]
    /\ btnDisabled = FALSE
    /\ permission \in PermissionAnswers
    /\ now = Now0
    /\ edits = 0
    /\ boot = "init"
    /\ cleanupPending = TRUE
    /\ probes = [fetch |-> 0, json |-> 0]
    /\ syncs = <<>>
    /\ setups = <<>>
    /\ sent = <<>>
    /\ handled = "other"
    /\ unsynced = FALSE
    /\ WorkerAsleep(FALSE, <<>>, <<>>)
    /\ reachable = FALSE

NotifyNext ==
    \/ \E sw \in BOOLEAN : DOMContentLoaded(sw)
    \/ \E r \in BOOLEAN : SetupServiceWorkerSettled(r)
    \/ \E o \in Outcomes : BootProbeResponse(o)
    \/ \E b \in BOOLEAN : BootProbeBody(b)
    \/ \E o \in Outcomes : ProbeResponse(o)
    \/ \E b \in BOOLEAN : ProbeBody(b)
    \/ \E i \in 1..Len(syncs), o \in Outcomes : SyncResponse(i, o)
    \/ \E i \in 1..Len(syncs), b \in BOOLEAN : SyncJson(i, b)
    \/ RetryTimer
    \/ OnlineEvent
    \/ OfflineEvent
    \/ EnableClick
    \/ \E i \in 1..Len(setups), a \in PermissionAnswers : PermissionAnswered(i, a)
    \/ \E i \in 1..Len(setups), o \in Outcomes : VapidResponse(i, o)
    \/ \E i \in 1..Len(setups), b \in BOOLEAN : VapidJson(i, b)
    \/ \E i \in 1..Len(setups), b \in BOOLEAN : Subscribed(i, b)
    \/ \E i \in 1..Len(setups), o \in Outcomes : SubscribeResponse(i, o)
    \/ \E i \in 1..Len(setups), b \in BOOLEAN : SubscribeJson(i, b)

NotifySpec == NotifyInit /\ [][NotifyNext]_vars

(* ------------------- the setup sequence's guarantees -------------------- *)

\* this step is a task of the setup sequence that aborted with cause message,
\* sent nothing and left the stored flag alone; ended tells how many pending
\* executions it ended
AbortedWith(message, ended) ==
    /\ handled' \in {"enable aborted", "permission aborted"}
    /\ notificationStatusEl' =
           NotificationStatus("notification-status error", message)
    /\ sent' = <<>>
    /\ enabledItem' = enabledItem
    /\ Len(setups') = Len(setups) - ended

\* this step is a task of the setup sequence that went on to the key request
WentOn(ended) ==
    /\ handled' \in {"enable", "permission"}
    /\ Len(setups') = Len(setups) - ended + 1

\* C11: enableNotifications aborts with 'Service Worker not available' when
\* there is no registration, else with 'Notification permission denied' when
\* the permission is, or is answered as, anything but granted, else with
\* 'Server not connected...' when isOnline is false, in that order of
\* precedence; an abort of these kinds sends no request and does not write
\* the stored flag; with none of the three the sequence goes on.
C11_SetupAbortsInOrder ==
    [][/\ handled' \in {"enable", "enable aborted"} =>
            IF ~swRegistration THEN AbortedWith(NoWorkerMessage, 0)
            ELSE IF permission = "default"
            THEN WentOn(0) /\ sent' = <<>> /\ enabledItem' = enabledItem
            ELSE IF permission # "granted" THEN AbortedWith(DeniedMessage, 0)
            ELSE IF ~isOnline THEN AbortedWith(NotConnectedMessage, 0)
            ELSE WentOn(0)
       /\ handled' \in {"permission", "permission aborted"} =>
            IF permission' # "granted" THEN AbortedWith(DeniedMessage, 1)
            ELSE IF ~isOnline THEN AbortedWith(NotConnectedMessage, 1)
            ELSE WentOn(1)]_vars

\* the permission was granted at the prompt after connectivity had been lost,
\* on a device with a registration: the sequence aborted as not connected
C11_Witness ==
    /\ handled = "permission aborted"
    /\ swRegistration
    /\ permission = "granted"
    /\ ~isOnline
    /\ notificationStatusEl.text = NotConnectedMessage
    /\ enabledItem = "absent"

\* the steps of a setup sequence that got through, in the order they were done
AllSteps == <<"vapid ok", "key read", "subscribed", "subscribe ok">>

\* the steps done by an execution that waits at pc
StepsBefore(pc) == SubSeq(AllSteps, 1, IF PcRank(pc) <= 2 THEN 0 ELSE PcRank(pc) - 2)

\* C12: the stored flag is written only by the task that ends a setup
\* sequence whose GET /vapid-public-key returned 2xx, whose subscription was
\* then created with the key read, and whose POST /subscribe, sent with that
\* subscription as its body, then returned 2xx, in this order; a step that
\* fails ends the sequence at once, sending nothing more and leaving the
\* stored flag as it was.
C12_FlagWrittenAfterAllSteps ==
    [][/\ enabledItem' # enabledItem => handled' = "setup done"
       /\ handled' = "setup done" =>
              /\ enabledItem' = "true"
              /\ \E i \in 1..Len(setups) :
                     /\ setups[i] = Setup("subscribeJson", AllSteps)
                     /\ setups' = RemoveAt(setups, i)
       /\ \A i \in 1..Len(setups') : setups'[i].done = StepsBefore(setups'[i].pc)
       /\ handled' = "subscribed" =>
              /\ sent' = <<Request("POST", "/subscribe", Subscription(VapidKey))>>
              /\ \E i \in 1..Len(setups) : setups[i].pc = "subscribe"
       /\ handled' = "setup aborted" =>
              /\ enabledItem' = enabledItem
              /\ sent' = <<>>
              /\ Len(setups') = Len(setups) - 1]_vars

\* a setup sequence got through all its steps and wrote the stored flag
C12_Witness ==
    /\ handled = "setup done"
    /\ enabledItem = "true"
    /\ notificationsEnabled /\ subscriptionActive
    /\ notificationStatusEl.text = "enabled and ready"

\* C13: while an enableNotifications execution is pending the button is
\* disabled, and so at most one execution is pending at any time, whatever
\* probes, syncs, connectivity events and calls of updateNotificationUI run
\* in between.
C13_OneSetupInFlight ==
    /\ setups # <<>> => btnDisabled
    /\ Len(setups) <= 1

\* the display status the page shows in state s, read off its two regions
Shown(s) ==
    IF s.notificationSetupEl = "block" /\ s.notificationStatusEl.display = "none"
    THEN "needs setup"
    ELSE IF s.notificationSetupEl = "none" /\ s.notificationStatusEl.display = "block"
    THEN IF s.notificationStatusEl.text = "enabled and ready"
              /\ s.notificationStatusEl.className = "notification-status"
         THEN "enabled/ready"
         ELSE IF s.notificationStatusEl.className # "notification-status error"
         THEN "other"
         ELSE IF s.notificationStatusEl.text = "blocked" THEN "blocked"
         ELSE IF s.notificationStatusEl.text = "connect to server"
         THEN "needs connection"
         ELSE "other"
    ELSE "other"

\* the display status of the triple, as the claim gives it
Projected(perm, flag, online) ==
    IF perm = "granted" /\ flag = "true" /\ online THEN "enabled/ready"
    ELSE IF perm = "denied" THEN "blocked"
    ELSE IF ~online THEN "needs connection"
    ELSE "needs setup"

\* C14: in every state and for every permission, the status updateNotificationUI
\* displays is the one the triple (permission, stored flag, isOnline) gives:
\* enabled/ready iff granted, flag set and Online; else blocked iff denied;
\* else needs connection iff Offline; else needs setup. A task that changes
\* isOnline or the stored flag ends with the status of the new triple shown.
C14_StatusIsProjection ==
    [][/\ \A p \in PermissionAnswers :
              Shown(updateNotificationUI(Cur, p)) = Projected(p, enabledItem, isOnline)
       /\ (isOnline' # isOnline \/ enabledItem' # enabledItem) =>
              Shown(Cur)' = Projected(permission', enabledItem', isOnline')]_vars

\* connectivity was lost during a sync with the permission denied: the status
\* shown is 'blocked', not 'needs connection'
C14_Witness ==
    /\ handled = "offline"
    /\ syncInProgress
    /\ permission = "denied"
    /\ ~isOnline
    /\ Shown(Cur) = "blocked"

(* ------------------------- sw.js: the push payload ---------------------- *)

\* push events: without data, or with the text of the data, a string
NoData == [has |-> FALSE, text |-> ""]
Data(text) == [has |-> TRUE, text |-> text]

\* The values of the worker's objects.
\*   A string is [str |-> s], s holding its UTF-16 code units in order: a
\*   unit from U+0020 to U+007E other than the backslash and the grave
\*   accent, a unit from U+00A1 to U+00FF, and the alarm clock U+23F0 of
\*   the worker's own texts are written as their character, any other unit
\*   as \uxxxx with four lower-case hexadecimal digits (a backslash is the
\*   six characters \u005c), however the text that held it
\*   wrote it.
\*   A number is [num |-> d, exp |-> e], the exact decimal value d * 10^e of
\*   its IEEE 754 double, d a numeral that does not end in 0, with a minus
\*   sign before it when the number is negative (-0 is "-0"); the infinities
\*   are [num |-> "Infinity"] and [num |-> "-Infinity"] with exp 0.
\*   true, false and null are [lit |-> their name], an array is
\*   [arr |-> the sequence of its elements], an object is [obj |-> the
\*   function from its member names, written as strings are, to their
\*   values], and a value the worker's surroundings supply (its origin, the
\*   clock) is [env |-> its expression].
Str(s) == [str |-> s]
Lit(name) == [lit |-> name]
Arr(elements) == [arr |-> elements]
Obj(members) == [obj |-> members]
Env(expression) == [env |-> expression]
NoMembers == [k \in {} |-> Lit("null")]

\* { ...a, ...b } on the members of a and b
Spread(a, b) ==
    [k \in (DOMAIN a) \cup (DOMAIN b) |-> IF k \in DOMAIN b THEN b[k] ELSE a[k]]

\* delete a[name]
Delete(a, name) == [k \in (DOMAIN a) \ {name} |-> a[k]]

\* a[name] = value
Assign(a, name, value) == Spread(a, [k \in {name} |-> value])

\* the characters JSON.parse tells apart
Quote == "\""
Backslash == "\\"
Whitespace == {" ", "\t", "\n", "\r"}
Structural == {"{", "}", "[", "]", ":", ","}
Delimiters == Whitespace \cup Structural \cup {Quote}
DigitName == <<"0", "1", "2", "3", "4", "5", "6", "7", "8", "9">>
Digits == {DigitName[d] : d \in 1..10}

\* the character of x at position i, none beyond its end
At(x, i) == IF i >= 1 /\ i <= Len(x) THEN SubSeq(x, i, i) ELSE ""

\* the decimal numeral of n, as the name of an array index
RECURSIVE Decimal(_)
Decimal(n) ==
    IF n < 10 THEN DigitName[n + 1]
    ELSE Decimal(n \div 10) \o DigitName[(n % 10) + 1]

\* the number a string of at most nine digits stands for
RECURSIVE DecimalValue(_)
DecimalValue(ds) ==
    IF ds = "" THEN 0
    ELSE DecimalValue(SubSeq(ds, 1, Len(ds) - 1)) * 10
             + (CHOOSE d \in 0..9 : DigitName[d + 1] = At(ds, Len(ds)))

\* the strings parts[lo], ..., parts[hi] in one
RECURSIVE Concat(_, _, _)
Concat(parts, lo, hi) ==
    IF lo > hi THEN ""
    ELSE IF lo = hi THEN parts[lo]
    ELSE Concat(parts, lo, (lo + hi) \div 2) \o Concat(parts, ((lo + hi) \div 2) + 1, hi)

(* the code units of a string *)

\* the characters from U+0001 to U+00FF in order (the place of the grave
\* accent, which no text of this notation holds, holds a space)
Low ==
    "\t\n\f\r !\"#$%&'()*+,-./0123456789:;<=>?@ABCDEFGHIJKLMNOPQRSTUVWXYZ[\\]^_ abcdefghijklmnopqrstuvwxyz{|}~ ¡¢£¤¥¦§¨©ª«¬­®¯°±²³´µ¶·¸¹º»¼½¾¿ÀÁÂÃÄÅÆÇÈÉÊËÌÍÎÏÐÑÒÓÔÕÖ×ØÙÚÛÜÝÞßàáâãäåæçèéêëìíîïðñòóôõö÷øùúûüýþÿ"

\* High[h] holds the characters from U+hh80 to U+hhFF in order, hh the two
\* hexadecimal digits of h; no text of this notation holds another character
\* above U+00FF.  The surrogates come in pairs only and are in Pairs.
High == <<
    "ƀƁƂƃƄƅƆƇƈƉƊƋƌƍƎƏƐƑƒƓƔƕƖƗƘƙƚƛƜƝƞƟƠơƢƣƤƥƦƧƨƩƪƫƬƭƮƯưƱƲƳƴƵƶƷƸƹƺƻƼƽƾƿǀǁǂǃǄǅǆǇǈǉǊǋǌǍǎǏǐǑǒǓǔǕǖǗǘǙǚǛǜǝǞǟǠǡǢǣǤǥǦǧǨǩǪǫǬǭǮǯǰǱǲǳǴǵǶǷǸǹǺǻǼǽǾǿ",
    "ʀʁʂʃʄʅʆʇʈʉʊʋʌʍʎʏʐʑʒʓʔʕʖʗʘʙʚʛʜʝʞʟʠʡʢʣʤʥʦʧʨʩʪʫʬʭʮʯʰʱʲʳʴʵʶʷʸʹʺʻʼʽʾʿˀˁ˂˃˄˅ˆˇˈˉˊˋˌˍˎˏːˑ˒˓˔˕˖˗˘˙˚˛˜˝˞˟ˠˡˢˣˤ˥˦˧˨˩˪˫ˬ˭ˮ˯˰˱˲˳˴˵˶˷˸˹˺˻˼˽˾˿",
    "΀΁΂΃΄΅Ά·ΈΉΊ΋Ό΍ΎΏΐΑΒΓΔΕΖΗΘΙΚΛΜΝΞΟΠΡ΢ΣΤΥΦΧΨΩΪΫάέήίΰαβγδεζηθικλμνξοπρςστυφχψωϊϋόύώϏϐϑϒϓϔϕϖϗϘϙϚϛϜϝϞϟϠϡϢϣϤϥϦϧϨϩϪϫϬϭϮϯϰϱϲϳϴϵ϶ϷϸϹϺϻϼϽϾϿ",
    "Ҁҁ҂҃҄҅҆҇҈҉ҊҋҌҍҎҏҐґҒғҔҕҖҗҘҙҚқҜҝҞҟҠҡҢңҤҥҦҧҨҩҪҫҬҭҮүҰұҲҳҴҵҶҷҸҹҺһҼҽҾҿӀӁӂӃӄӅӆӇӈӉӊӋӌӍӎӏӐӑӒӓӔӕӖӗӘәӚӛӜӝӞӟӠӡӢӣӤӥӦӧӨөӪӫӬӭӮӯӰӱӲӳӴӵӶӷӸӹӺӻӼӽӾӿ",
    "րցւփքօֆևֈ։֊֋֌֍֎֏֐ְֱֲֳִֵֶַָֹֺֻּֽ֑֖֛֢֣֤֥֦֧֪֚֭֮֒֓֔֕֗֘֙֜֝֞֟֠֡֨֩֫֬֯־ֿ׀ׁׂ׃ׅׄ׆ׇ׈׉׊׋׌׍׎׏אבגדהוזחטיךכלםמןנסעףפץצקרשת׫׬׭׮ׯװױײ׳״׵׶׷׸׹׺׻׼׽׾׿",
    "ڀځڂڃڄڅچڇڈډڊڋڌڍڎڏڐڑڒړڔڕږڗژڙښڛڜڝڞڟڠڡڢڣڤڥڦڧڨکڪګڬڭڮگڰڱڲڳڴڵڶڷڸڹںڻڼڽھڿۀہۂۃۄۅۆۇۈۉۊۋیۍێۏېۑےۓ۔ەۖۗۘۙۚۛۜ۝۞ۣ۟۠ۡۢۤۥۦۧۨ۩۪ۭ۫۬ۮۯ۰۱۲۳۴۵۶۷۸۹ۺۻۼ۽۾ۿ",
    "ހށނރބޅކއވމފދތލގޏސޑޒޓޔޕޖޗޘޙޚޛޜޝޞޟޠޡޢޣޤޥަާިީުޫެޭޮޯްޱ޲޳޴޵޶޷޸޹޺޻޼޽޾޿߀߁߂߃߄߅߆߇߈߉ߊߋߌߍߎߏߐߑߒߓߔߕߖߗߘߙߚߛߜߝߞߟߠߡߢߣߤߥߦߧߨߩߪ߲߫߬߭߮߯߰߱߳ߴߵ߶߷߸߹ߺ߻߼߽߾߿",
    "ࢀࢁࢂࢃࢄࢅࢆࢇ࢈ࢉࢊࢋࢌࢍࢎ࢏࢐࢑࢒࢓࢔࢕࢖࢙࢚࢛ࢗ࢘࢜࢝࢞࢟ࢠࢡࢢࢣࢤࢥࢦࢧࢨࢩࢪࢫࢬࢭࢮࢯࢰࢱࢲࢳࢴࢵࢶࢷࢸࢹࢺࢻࢼࢽࢾࢿࣀࣁࣂࣃࣄࣅࣆࣇࣈࣉ࣏࣐࣑࣒࣓࣊࣋࣌࣍࣎ࣔࣕࣖࣗࣘࣙࣚࣛࣜࣝࣞࣟ࣠࣡࣢ࣰࣱࣲࣣࣦࣩ࣭࣮࣯ࣶࣹࣺࣤࣥࣧࣨ࣪࣫࣬ࣳࣴࣵࣷࣸࣻࣼࣽࣾࣿ",
    "ঀঁংঃ঄অআইঈউঊঋঌ঍঎এঐ঑঒ওঔকখগঘঙচছজঝঞটঠডঢণতথদধন঩পফবভমযর঱ল঳঴঵শষসহ঺঻়ঽািীুূৃৄ৅৆েৈ৉৊োৌ্ৎ৏৐৑৒৓৔৕৖ৗ৘৙৚৛ড়ঢ়৞য়ৠৡৢৣ৤৥০১২৩৪৫৬৭৮৯ৰৱ৲৳৴৵৶৷৸৹৺৻ৼ৽৾৿",
    "઀ઁંઃ઄અઆઇઈઉઊઋઌઍ઎એઐઑ઒ઓઔકખગઘઙચછજઝઞટઠડઢણતથદધન઩પફબભમયર઱લળ઴વશષસહ઺઻઼ઽાિીુૂૃૄૅ૆ેૈૉ૊ોૌ્૎૏ૐ૑૒૓૔૕૖૗૘૙૚૛૜૝૞૟ૠૡૢૣ૤૥૦૧૨૩૪૫૬૭૮૯૰૱૲૳૴૵૶૷૸ૹૺૻૼ૽૾૿",
    "஀஁ஂஃ஄அஆஇஈஉஊ஋஌஍எஏஐ஑ஒஓஔக஖஗஘ஙச஛ஜ஝ஞட஠஡஢ணத஥஦஧நனப஫஬஭மயரறலளழவஶஷஸஹ஺஻஼஽ாிீுூ௃௄௅ெேை௉ொோௌ்௎௏ௐ௑௒௓௔௕௖ௗ௘௙௚௛௜௝௞௟௠௡௢௣௤௥௦௧௨௩௪௫௬௭௮௯௰௱௲௳௴௵௶௷௸௹௺௻௼௽௾௿",
    "ಀಁಂಃ಄ಅಆಇಈಉಊಋಌ಍ಎಏಐ಑ಒಓಔಕಖಗಘಙಚಛಜಝಞಟಠಡಢಣತಥದಧನ಩ಪಫಬಭಮಯರಱಲಳ಴ವಶಷಸಹ಺಻಼ಽಾಿೀುೂೃೄ೅ೆೇೈ೉ೊೋೌ್೎೏೐೑೒೓೔ೕೖ೗೘೙೚೛೜ೝೞ೟ೠೡೢೣ೤೥೦೧೨೩೪೫೬೭೮೯೰ೱೲೳ೴೵೶೷೸೹೺೻೼೽೾೿",
    "඀ඁංඃ඄අආඇඈඉඊඋඌඍඎඏඐඑඒඓඔඕඖ඗඘඙කඛගඝඞඟචඡජඣඤඥඦටඨඩඪණඬතථදධන඲ඳපඵබභමඹයර඼ල඾඿වශෂසහළෆ෇෈෉්෋෌෍෎ාැෑිීු෕ූ෗ෘෙේෛොෝෞෟ෠෡෢෣෤෥෦෧෨෩෪෫෬෭෮෯෰෱ෲෳ෴෵෶෷෸෹෺෻෼෽෾෿",
    "຀ກຂ຃ຄ຅ຆງຈຉຊ຋ຌຍຎຏຐຑຒຓດຕຖທຘນບປຜຝພຟຠມຢຣ຤ລ຦ວຨຩສຫຬອຮຯະັາຳິີຶື຺ຸູົຼຽ຾຿ເແໂໃໄ໅ໆ໇່້໊໋໌ໍ໎໏໐໑໒໓໔໕໖໗໘໙໚໛ໜໝໞໟ໠໡໢໣໤໥໦໧໨໩໪໫໬໭໮໯໰໱໲໳໴໵໶໷໸໹໺໻໼໽໾໿",
    "྄ཱྀྀྂྃ྅྆྇ྈྉྊྋྌྍྎྏྐྑྒྒྷྔྕྖྗ྘ྙྚྛྜྜྷྞྟྠྡྡྷྣྤྥྦྦྷྨྩྪྫྫྷྭྮྯྰྱྲླྴྵྶྷྸྐྵྺྻྼ྽྾྿࿀࿁࿂࿃࿄࿅࿆࿇࿈࿉࿊࿋࿌࿍࿎࿏࿐࿑࿒࿓࿔࿕࿖࿗࿘࿙࿚࿛࿜࿝࿞࿟࿠࿡࿢࿣࿤࿥࿦࿧࿨࿩࿪࿫࿬࿭࿮࿯࿰࿱࿲࿳࿴࿵࿶࿷࿸࿹࿺࿻࿼࿽࿾࿿",
    "ႀႁႂႃႄႅႆႇႈႉႊႋႌႍႎႏ႐႑႒႓႔႕႖႗႘႙ႚႛႜႝ႞႟ႠႡႢႣႤႥႦႧႨႩႪႫႬႭႮႯႰႱႲႳႴႵႶႷႸႹႺႻႼႽႾႿჀჁჂჃჄჅ჆Ⴧ჈჉჊჋჌Ⴭ჎჏აბგდევზთიკლმნოპჟრსტუფქღყშჩცძწჭხჯჰჱჲჳჴჵჶჷჸჹჺ჻ჼჽჾჿ",
    "ᆀᆁᆂᆃᆄᆅᆆᆇᆈᆉᆊᆋᆌᆍᆎᆏᆐᆑᆒᆓᆔᆕᆖᆗᆘᆙᆚᆛᆜᆝᆞᆟᆠᆡᆢᆣᆤᆥᆦᆧᆨᆩᆪᆫᆬᆭᆮᆯᆰᆱᆲᆳᆴᆵᆶᆷᆸᆹᆺᆻᆼᆽᆾᆿᇀᇁᇂᇃᇄᇅᇆᇇᇈᇉᇊᇋᇌᇍᇎᇏᇐᇑᇒᇓᇔᇕᇖᇗᇘᇙᇚᇛᇜᇝᇞᇟᇠᇡᇢᇣᇤᇥᇦᇧᇨᇩᇪᇫᇬᇭᇮᇯᇰᇱᇲᇳᇴᇵᇶᇷᇸᇹᇺᇻᇼᇽᇾᇿ",
    "ኀኁኂኃኄኅኆኇኈ኉ኊኋኌኍ኎኏ነኑኒናኔንኖኗኘኙኚኛኜኝኞኟአኡኢኣኤእኦኧከኩኪካኬክኮኯኰ኱ኲኳኴኵ኶኷ኸኹኺኻኼኽኾ኿ዀ዁ዂዃዄዅ዆዇ወዉዊዋዌውዎዏዐዑዒዓዔዕዖ዗ዘዙዚዛዜዝዞዟዠዡዢዣዤዥዦዧየዩዪያዬይዮዯደዱዲዳዴድዶዷዸዹዺዻዼዽዾዿ",
    "ᎀᎁᎂᎃᎄᎅᎆᎇᎈᎉᎊᎋᎌᎍᎎᎏ᎐᎑᎒᎓᎔᎕᎖᎗᎘᎙᎚᎛᎜᎝᎞᎟ᎠᎡᎢᎣᎤᎥᎦᎧᎨᎩᎪᎫᎬᎭᎮᎯᎰᎱᎲᎳᎴᎵᎶᎷᎸᎹᎺᎻᎼᎽᎾᎿᏀᏁᏂᏃᏄᏅᏆᏇᏈᏉᏊᏋᏌᏍᏎᏏᏐᏑᏒᏓᏔᏕᏖᏗᏘᏙᏚᏛᏜᏝᏞᏟᏠᏡᏢᏣᏤᏥᏦᏧᏨᏩᏪᏫᏬᏭᏮᏯᏰᏱᏲᏳᏴᏵ᏶᏷ᏸᏹᏺᏻᏼᏽ᏾᏿",
    "ᒀᒁᒂᒃᒄᒅᒆᒇᒈᒉᒊᒋᒌᒍᒎᒏᒐᒑᒒᒓᒔᒕᒖᒗᒘᒙᒚᒛᒜᒝᒞᒟᒠᒡᒢᒣᒤᒥᒦᒧᒨᒩᒪᒫᒬᒭᒮᒯᒰᒱᒲᒳᒴᒵᒶᒷᒸᒹᒺᒻᒼᒽᒾᒿᓀᓁᓂᓃᓄᓅᓆᓇᓈᓉᓊᓋᓌᓍᓎᓏᓐᓑᓒᓓᓔᓕᓖᓗᓘᓙᓚᓛᓜᓝᓞᓟᓠᓡᓢᓣᓤᓥᓦᓧᓨᓩᓪᓫᓬᓭᓮᓯᓰᓱᓲᓳᓴᓵᓶᓷᓸᓹᓺᓻᓼᓽᓾᓿ",
    "ᖀᖁᖂᖃᖄᖅᖆᖇᖈᖉᖊᖋᖌᖍᖎᖏᖐᖑᖒᖓᖔᖕᖖᖗᖘᖙᖚᖛᖜᖝᖞᖟᖠᖡᖢᖣᖤᖥᖦᖧᖨᖩᖪᖫᖬᖭᖮᖯᖰᖱᖲᖳᖴᖵᖶᖷᖸᖹᖺᖻᖼᖽᖾᖿᗀᗁᗂᗃᗄᗅᗆᗇᗈᗉᗊᗋᗌᗍᗎᗏᗐᗑᗒᗓᗔᗕᗖᗗᗘᗙᗚᗛᗜᗝᗞᗟᗠᗡᗢᗣᗤᗥᗦᗧᗨᗩᗪᗫᗬᗭᗮᗯᗰᗱᗲᗳᗴᗵᗶᗷᗸᗹᗺᗻᗼᗽᗾᗿ",
    " ᚁᚂᚃᚄᚅᚆᚇᚈᚉᚊᚋᚌᚍᚎᚏᚐᚑᚒᚓᚔᚕᚖᚗᚘᚙᚚ᚛᚜᚝᚞᚟ᚠᚡᚢᚣᚤᚥᚦᚧᚨᚩᚪᚫᚬᚭᚮᚯᚰᚱᚲᚳᚴᚵᚶᚷᚸᚹᚺᚻᚼᚽᚾᚿᛀᛁᛂᛃᛄᛅᛆᛇᛈᛉᛊᛋᛌᛍᛎᛏᛐᛑᛒᛓᛔᛕᛖᛗᛘᛙᛚᛛᛜᛝᛞᛟᛠᛡᛢᛣᛤᛥᛦᛧᛨᛩᛪ᛫᛬᛭ᛮᛯᛰᛱᛲᛳᛴᛵᛶᛷᛸ᛹᛺᛻᛼᛽᛾᛿",
    "កខគឃងចឆជឈញដឋឌឍណតថទធនបផពភមយរលវឝឞសហឡអឣឤឥឦឧឨឩឪឫឬឭឮឯឰឱឲឳ឴឵ាិីឹឺុូួើឿៀេែៃោៅំះៈ៉៊់៌៍៎៏័៑្៓។៕៖ៗ៘៙៚៛ៜ៝៞៟០១២៣៤៥៦៧៨៩៪៫៬៭៮៯៰៱៲៳៴៵៶៷៸៹៺៻៼៽៾៿",
    "ᢀᢁᢂᢃᢄᢅᢆᢇᢈᢉᢊᢋᢌᢍᢎᢏᢐᢑᢒᢓᢔᢕᢖᢗᢘᢙᢚᢛᢜᢝᢞᢟᢠᢡᢢᢣᢤᢥᢦᢧᢨᢩᢪ᢫᢬᢭᢮᢯ᢰᢱᢲᢳᢴᢵᢶᢷᢸᢹᢺᢻᢼᢽᢾᢿᣀᣁᣂᣃᣄᣅᣆᣇᣈᣉᣊᣋᣌᣍᣎᣏᣐᣑᣒᣓᣔᣕᣖᣗᣘᣙᣚᣛᣜᣝᣞᣟᣠᣡᣢᣣᣤᣥᣦᣧᣨᣩᣪᣫᣬᣭᣮᣯᣰᣱᣲᣳᣴᣵ᣶᣷᣸᣹᣺᣻᣼᣽᣾᣿",
    "ᦀᦁᦂᦃᦄᦅᦆᦇᦈᦉᦊᦋᦌᦍᦎᦏᦐᦑᦒᦓᦔᦕᦖᦗᦘᦙᦚᦛᦜᦝᦞᦟᦠᦡᦢᦣᦤᦥᦦᦧᦨᦩᦪᦫ᦬᦭᦮᦯ᦰᦱᦲᦳᦴᦵᦶᦷᦸᦹᦺᦻᦼᦽᦾᦿᧀᧁᧂᧃᧄᧅᧆᧇᧈᧉ᧊᧋᧌᧍᧎᧏᧐᧑᧒᧓᧔᧕᧖᧗᧘᧙᧚᧛᧜᧝᧞᧟᧠᧡᧢᧣᧤᧥᧦᧧᧨᧩᧪᧫᧬᧭᧮᧯᧰᧱᧲᧳᧴᧵᧶᧷᧸᧹᧺᧻᧼᧽᧾᧿",
    "᪀᪁᪂᪃᪄᪅᪆᪇᪈᪉᪊᪋᪌᪍᪎᪏᪐᪑᪒᪓᪔᪕᪖᪗᪘᪙᪚᪛᪜᪝᪞᪟᪠᪡᪢᪣᪤᪥᪦ᪧ᪨᪩᪪᪫᪬᪭᪮᪯᪵᪶᪷᪸᪹᪺᪽᪰᪱᪲᪳᪴᪻᪼᪾ᪿᫀ᫃᫄᫊᫁᫂᫅᫆᫇᫈᫉᫋ᫌᫍᫎ᫏᫐᫑᫒᫓᫔᫕᫖᫗᫘᫙᫚᫛᫜᫝᫞᫟᫠᫡᫢᫣᫤᫥᫦᫧᫨᫩᫪᫫᫬᫭᫮᫯᫰᫱᫲᫳᫴᫵᫶᫷᫸᫹᫺᫻᫼᫽᫾᫿",
    "ᮀᮁᮂᮃᮄᮅᮆᮇᮈᮉᮊᮋᮌᮍᮎᮏᮐᮑᮒᮓᮔᮕᮖᮗᮘᮙᮚᮛᮜᮝᮞᮟᮠᮡᮢᮣᮤᮥᮦᮧᮨᮩ᮪᮫ᮬᮭᮮᮯ᮰᮱᮲᮳᮴᮵᮶᮷᮸᮹ᮺᮻᮼᮽᮾᮿᯀᯁᯂᯃᯄᯅᯆᯇᯈᯉᯊᯋᯌᯍᯎᯏᯐᯑᯒᯓᯔᯕᯖᯗᯘᯙᯚᯛᯜᯝᯞᯟᯠᯡᯢᯣᯤᯥ᯦ᯧᯨᯩᯪᯫᯬᯭᯮᯯᯰᯱ᯲᯳᯴᯵᯶᯷᯸᯹᯺᯻᯼᯽᯾᯿",
    "ᲀᲁᲂᲃᲄᲅᲆᲇᲈᲉᲊ᲋᲌᲍᲎᲏ᲐᲑᲒᲓᲔᲕᲖᲗᲘᲙᲚᲛᲜᲝᲞᲟᲠᲡᲢᲣᲤᲥᲦᲧᲨᲩᲪᲫᲬᲭᲮᲯᲰᲱᲲᲳᲴᲵᲶᲷᲸᲹᲺ᲻᲼ᲽᲾᲿ᳀᳁᳂᳃᳄᳅᳆᳇᳈᳉᳊᳋᳌᳍᳎᳏᳐᳑᳒᳓᳔᳕᳖᳗᳘᳙᳜᳝᳞᳟᳚᳛᳠᳡᳢᳣᳤᳥᳦᳧᳨ᳩᳪᳫᳬ᳭ᳮᳯᳰᳱᳲᳳ᳴ᳵᳶ᳷᳸᳹ᳺ᳻᳼᳽᳾᳿",
    "ᶀᶁᶂᶃᶄᶅᶆᶇᶈᶉᶊᶋᶌᶍᶎᶏᶐᶑᶒᶓᶔᶕᶖᶗᶘᶙᶚᶛᶜᶝᶞᶟᶠᶡᶢᶣᶤᶥᶦᶧᶨᶩᶪᶫᶬᶭᶮᶯᶰᶱᶲᶳᶴᶵᶶᶷᶸᶹᶺᶻᶼᶽᶾᶿ᷐᷎᷺᷂᷊᷏᷹᷽᷿᷷᷸᷀᷁᷃᷄᷅᷆᷇᷈᷉᷋᷌᷑᷒ᷓᷔᷕᷖᷗᷘᷙᷚᷛᷜᷝᷞᷟᷠᷡᷢᷣᷤᷥᷦᷧᷨᷩᷪᷫᷬᷭᷮᷯᷰᷱᷲᷳᷴ᷵᷻᷾᷶᷼᷍",
    "ẀẁẂẃẄẅẆẇẈẉẊẋẌẍẎẏẐẑẒẓẔẕẖẗẘẙẚẛẜẝẞẟẠạẢảẤấẦầẨẩẪẫẬậẮắẰằẲẳẴẵẶặẸẹẺẻẼẽẾếỀềỂểỄễỆệỈỉỊịỌọỎỏỐốỒồỔổỖỗỘộỚớỜờỞởỠỡỢợỤụỦủỨứỪừỬửỮữỰựỲỳỴỵỶỷỸỹỺỻỼỽỾỿ",
    "ᾀᾁᾂᾃᾄᾅᾆᾇᾈᾉᾊᾋᾌᾍᾎᾏᾐᾑᾒᾓᾔᾕᾖᾗᾘᾙᾚᾛᾜᾝᾞᾟᾠᾡᾢᾣᾤᾥᾦᾧᾨᾩᾪᾫᾬᾭᾮᾯᾰᾱᾲᾳᾴ᾵ᾶᾷᾸᾹᾺΆᾼ᾽ι᾿῀῁ῂῃῄ῅ῆῇῈΈῊΉῌ῍῎῏ῐῑῒΐ῔῕ῖῗῘῙῚΊ῜῝῞῟ῠῡῢΰῤῥῦῧῨῩῪΎῬ῭΅`῰῱ῲῳῴ῵ῶῷῸΌῺΏῼ´῾῿",
    "₀₁₂₃₄₅₆₇₈₉₊₋₌₍₎₏ₐₑₒₓₔₕₖₗₘₙₚₛₜ₝₞₟₠₡₢₣₤₥₦₧₨₩₪₫€₭₮₯₰₱₲₳₴₵₶₷₸₹₺₻₼₽₾₿⃀⃁⃂⃃⃄⃅⃆⃇⃈⃉⃊⃋⃌⃍⃎⃏⃒⃓⃘⃙⃚⃐⃑⃔⃕⃖⃗⃛⃜⃝⃞⃟⃠⃡⃢⃣⃤⃥⃦⃪⃫⃨⃬⃭⃮⃯⃧⃩⃰⃱⃲⃳⃴⃵⃶⃷⃸⃹⃺⃻⃼⃽⃾⃿",
    "ↀↁↂↃↄↅↆↇↈ↉↊↋↌↍↎↏←↑→↓↔↕↖↗↘↙↚↛↜↝↞↟↠↡↢↣↤↥↦↧↨↩↪↫↬↭↮↯↰↱↲↳↴↵↶↷↸↹↺↻↼↽↾↿⇀⇁⇂⇃⇄⇅⇆⇇⇈⇉⇊⇋⇌⇍⇎⇏⇐⇑⇒⇓⇔⇕⇖⇗⇘⇙⇚⇛⇜⇝⇞⇟⇠⇡⇢⇣⇤⇥⇦⇧⇨⇩⇪⇫⇬⇭⇮⇯⇰⇱⇲⇳⇴⇵⇶⇷⇸⇹⇺⇻⇼⇽⇾⇿",
    "⊀⊁⊂⊃⊄⊅⊆⊇⊈⊉⊊⊋⊌⊍⊎⊏⊐⊑⊒⊓⊔⊕⊖⊗⊘⊙⊚⊛⊜⊝⊞⊟⊠⊡⊢⊣⊤⊥⊦⊧⊨⊩⊪⊫⊬⊭⊮⊯⊰⊱⊲⊳⊴⊵⊶⊷⊸⊹⊺⊻⊼⊽⊾⊿⋀⋁⋂⋃⋄⋅⋆⋇⋈⋉⋊⋋⋌⋍⋎⋏⋐⋑⋒⋓⋔⋕⋖⋗⋘⋙⋚⋛⋜⋝⋞⋟⋠⋡⋢⋣⋤⋥⋦⋧⋨⋩⋪⋫⋬⋭⋮⋯⋰⋱⋲⋳⋴⋵⋶⋷⋸⋹⋺⋻⋼⋽⋾⋿",
    "⎀⎁⎂⎃⎄⎅⎆⎇⎈⎉⎊⎋⎌⎍⎎⎏⎐⎑⎒⎓⎔⎕⎖⎗⎘⎙⎚⎛⎜⎝⎞⎟⎠⎡⎢⎣⎤⎥⎦⎧⎨⎩⎪⎫⎬⎭⎮⎯⎰⎱⎲⎳⎴⎵⎶⎷⎸⎹⎺⎻⎼⎽⎾⎿⏀⏁⏂⏃⏄⏅⏆⏇⏈⏉⏊⏋⏌⏍⏎⏏⏐⏑⏒⏓⏔⏕⏖⏗⏘⏙⏚⏛⏜⏝⏞⏟⏠⏡⏢⏣⏤⏥⏦⏧⏨⏩⏪⏫⏬⏭⏮⏯⏰⏱⏲⏳⏴⏵⏶⏷⏸⏹⏺⏻⏼⏽⏾⏿",
    "⒀⒁⒂⒃⒄⒅⒆⒇⒈⒉⒊⒋⒌⒍⒎⒏⒐⒑⒒⒓⒔⒕⒖⒗⒘⒙⒚⒛⒜⒝⒞⒟⒠⒡⒢⒣⒤⒥⒦⒧⒨⒩⒪⒫⒬⒭⒮⒯⒰⒱⒲⒳⒴⒵ⒶⒷⒸⒹⒺⒻⒼⒽⒾⒿⓀⓁⓂⓃⓄⓅⓆⓇⓈⓉⓊⓋⓌⓍⓎⓏⓐⓑⓒⓓⓔⓕⓖⓗⓘⓙⓚⓛⓜⓝⓞⓟⓠⓡⓢⓣⓤⓥⓦⓧⓨⓩ⓪⓫⓬⓭⓮⓯⓰⓱⓲⓳⓴⓵⓶⓷⓸⓹⓺⓻⓼⓽⓾⓿",
    "▀▁▂▃▄▅▆▇█▉▊▋▌▍▎▏▐░▒▓▔▕▖▗▘▙▚▛▜▝▞▟■□▢▣▤▥▦▧▨▩▪▫▬▭▮▯▰▱▲△▴▵▶▷▸▹►▻▼▽▾▿◀◁◂◃◄◅◆◇◈◉◊○◌◍◎●◐◑◒◓◔◕◖◗◘◙◚◛◜◝◞◟◠◡◢◣◤◥◦◧◨◩◪◫◬◭◮◯◰◱◲◳◴◵◶◷◸◹◺◻◼◽◾◿",
    "⚀⚁⚂⚃⚄⚅⚆⚇⚈⚉⚊⚋⚌⚍⚎⚏⚐⚑⚒⚓⚔⚕⚖⚗⚘⚙⚚⚛⚜⚝⚞⚟⚠⚡⚢⚣⚤⚥⚦⚧⚨⚩⚪⚫⚬⚭⚮⚯⚰⚱⚲⚳⚴⚵⚶⚷⚸⚹⚺⚻⚼⚽⚾⚿⛀⛁⛂⛃⛄⛅⛆⛇⛈⛉⛊⛋⛌⛍⛎⛏⛐⛑⛒⛓⛔⛕⛖⛗⛘⛙⛚⛛⛜⛝⛞⛟⛠⛡⛢⛣⛤⛥⛦⛧⛨⛩⛪⛫⛬⛭⛮⛯⛰⛱⛲⛳⛴⛵⛶⛷⛸⛹⛺⛻⛼⛽⛾⛿",
    "➀➁➂➃➄➅➆➇➈➉➊➋➌➍➎➏➐➑➒➓➔➕➖➗➘➙➚➛➜➝➞➟➠➡➢➣➤➥➦➧➨➩➪➫➬➭➮➯➰➱➲➳➴➵➶➷➸➹➺➻➼➽➾➿⟀⟁⟂⟃⟄⟅⟆⟇⟈⟉⟊⟋⟌⟍⟎⟏⟐⟑⟒⟓⟔⟕⟖⟗⟘⟙⟚⟛⟜⟝⟞⟟⟠⟡⟢⟣⟤⟥⟦⟧⟨⟩⟪⟫⟬⟭⟮⟯⟰⟱⟲⟳⟴⟵⟶⟷⟸⟹⟺⟻⟼⟽⟾⟿",
    "⢀⢁⢂⢃⢄⢅⢆⢇⢈⢉⢊⢋⢌⢍⢎⢏⢐⢑⢒⢓⢔⢕⢖⢗⢘⢙⢚⢛⢜⢝⢞⢟⢠⢡⢢⢣⢤⢥⢦⢧⢨⢩⢪⢫⢬⢭⢮⢯⢰⢱⢲⢳⢴⢵⢶⢷⢸⢹⢺⢻⢼⢽⢾⢿⣀⣁⣂⣃⣄⣅⣆⣇⣈⣉⣊⣋⣌⣍⣎⣏⣐⣑⣒⣓⣔⣕⣖⣗⣘⣙⣚⣛⣜⣝⣞⣟⣠⣡⣢⣣⣤⣥⣦⣧⣨⣩⣪⣫⣬⣭⣮⣯⣰⣱⣲⣳⣴⣵⣶⣷⣸⣹⣺⣻⣼⣽⣾⣿",
    "⦀⦁⦂⦃⦄⦅⦆⦇⦈⦉⦊⦋⦌⦍⦎⦏⦐⦑⦒⦓⦔⦕⦖⦗⦘⦙⦚⦛⦜⦝⦞⦟⦠⦡⦢⦣⦤⦥⦦⦧⦨⦩⦪⦫⦬⦭⦮⦯⦰⦱⦲⦳⦴⦵⦶⦷⦸⦹⦺⦻⦼⦽⦾⦿⧀⧁⧂⧃⧄⧅⧆⧇⧈⧉⧊⧋⧌⧍⧎⧏⧐⧑⧒⧓⧔⧕⧖⧗⧘⧙⧚⧛⧜⧝⧞⧟⧠⧡⧢⧣⧤⧥⧦⧧⧨⧩⧪⧫⧬⧭⧮⧯⧰⧱⧲⧳⧴⧵⧶⧷⧸⧹⧺⧻⧼⧽⧾⧿",
    "⪀⪁⪂⪃⪄⪅⪆⪇⪈⪉⪊⪋⪌⪍⪎⪏⪐⪑⪒⪓⪔⪕⪖⪗⪘⪙⪚⪛⪜⪝⪞⪟⪠⪡⪢⪣⪤⪥⪦⪧⪨⪩⪪⪫⪬⪭⪮⪯⪰⪱⪲⪳⪴⪵⪶⪷⪸⪹⪺⪻⪼⪽⪾⪿⫀⫁⫂⫃⫄⫅⫆⫇⫈⫉⫊⫋⫌⫍⫎⫏⫐⫑⫒⫓⫔⫕⫖⫗⫘⫙⫚⫛⫝̸⫝⫞⫟⫠⫡⫢⫣⫤⫥⫦⫧⫨⫩⫪⫫⫬⫭⫮⫯⫰⫱⫲⫳⫴⫵⫶⫷⫸⫹⫺⫻⫼⫽⫾⫿",
    "⮀⮁⮂⮃⮄⮅⮆⮇⮈⮉⮊⮋⮌⮍⮎⮏⮐⮑⮒⮓⮔⮕⮖⮗⮘⮙⮚⮛⮜⮝⮞⮟⮠⮡⮢⮣⮤⮥⮦⮧⮨⮩⮪⮫⮬⮭⮮⮯⮰⮱⮲⮳⮴⮵⮶⮷⮸⮹⮺⮻⮼⮽⮾⮿⯀⯁⯂⯃⯄⯅⯆⯇⯈⯉⯊⯋⯌⯍⯎⯏⯐⯑⯒⯓⯔⯕⯖⯗⯘⯙⯚⯛⯜⯝⯞⯟⯠⯡⯢⯣⯤⯥⯦⯧⯨⯩⯪⯫⯬⯭⯮⯯⯰⯱⯲⯳⯴⯵⯶⯷⯸⯹⯺⯻⯼⯽⯾⯿",
    "ⲀⲁⲂⲃⲄⲅⲆⲇⲈⲉⲊⲋⲌⲍⲎⲏⲐⲑⲒⲓⲔⲕⲖⲗⲘⲙⲚⲛⲜⲝⲞⲟⲠⲡⲢⲣⲤⲥⲦⲧⲨⲩⲪⲫⲬⲭⲮⲯⲰⲱⲲⲳⲴⲵⲶⲷⲸⲹⲺⲻⲼⲽⲾⲿⳀⳁⳂⳃⳄⳅⳆⳇⳈⳉⳊⳋⳌⳍⳎⳏⳐⳑⳒⳓⳔⳕⳖⳗⳘⳙⳚⳛⳜⳝⳞⳟⳠⳡⳢⳣⳤ⳥⳦⳧⳨⳩⳪ⳫⳬⳭⳮ⳯⳰⳱Ⳳⳳ⳴⳵⳶⳷⳸⳹⳺⳻⳼⳽⳾⳿",
    "ⶀⶁⶂⶃⶄⶅⶆⶇⶈⶉⶊⶋⶌⶍⶎⶏⶐⶑⶒⶓⶔⶕⶖ⶗⶘⶙⶚⶛⶜⶝⶞⶟ⶠⶡⶢⶣⶤⶥⶦ⶧ⶨⶩⶪⶫⶬⶭⶮ⶯ⶰⶱⶲⶳⶴⶵⶶ⶷ⶸⶹⶺⶻⶼⶽⶾ⶿ⷀⷁⷂⷃⷄⷅⷆ⷇ⷈⷉⷊⷋⷌⷍⷎ⷏ⷐⷑⷒⷓⷔⷕⷖ⷗ⷘⷙⷚⷛⷜⷝⷞ⷟ⷠⷡⷢⷣⷤⷥⷦⷧⷨⷩⷪⷫⷬⷭⷮⷯⷰⷱⷲⷳⷴⷵⷶⷷⷸⷹⷺⷻⷼⷽⷾⷿ",
    "⺀⺁⺂⺃⺄⺅⺆⺇⺈⺉⺊⺋⺌⺍⺎⺏⺐⺑⺒⺓⺔⺕⺖⺗⺘⺙⺚⺛⺜⺝⺞⺟⺠⺡⺢⺣⺤⺥⺦⺧⺨⺩⺪⺫⺬⺭⺮⺯⺰⺱⺲⺳⺴⺵⺶⺷⺸⺹⺺⺻⺼⺽⺾⺿⻀⻁⻂⻃⻄⻅⻆⻇⻈⻉⻊⻋⻌⻍⻎⻏⻐⻑⻒⻓⻔⻕⻖⻗⻘⻙⻚⻛⻜⻝⻞⻟⻠⻡⻢⻣⻤⻥⻦⻧⻨⻩⻪⻫⻬⻭⻮⻯⻰⻱⻲⻳⻴⻵⻶⻷⻸⻹⻺⻻⻼⻽⻾⻿",
    "⾀⾁⾂⾃⾄⾅⾆⾇⾈⾉⾊⾋⾌⾍⾎⾏⾐⾑⾒⾓⾔⾕⾖⾗⾘⾙⾚⾛⾜⾝⾞⾟⾠⾡⾢⾣⾤⾥⾦⾧⾨⾩⾪⾫⾬⾭⾮⾯⾰⾱⾲⾳⾴⾵⾶⾷⾸⾹⾺⾻⾼⾽⾾⾿⿀⿁⿂⿃⿄⿅⿆⿇⿈⿉⿊⿋⿌⿍⿎⿏⿐⿑⿒⿓⿔⿕⿖⿗⿘⿙⿚⿛⿜⿝⿞⿟⿠⿡⿢⿣⿤⿥⿦⿧⿨⿩⿪⿫⿬⿭⿮⿯⿰⿱⿲⿳⿴⿵⿶⿷⿸⿹⿺⿻⿼⿽⿾⿿",
    "むめもゃやゅゆょよらりるれろゎわゐゑをんゔゕゖ゗゘゙゚゛゜ゝゞゟ゠ァアィイゥウェエォオカガキギクグケゲコゴサザシジスズセゼソゾタダチヂッツヅテデトドナニヌネノハバパヒビピフブプヘベペホボポマミムメモャヤュユョヨラリルレロヮワヰヱヲンヴヵヶヷヸヹヺ・ーヽヾヿ",
    "ㆀㆁㆂㆃㆄㆅㆆㆇㆈㆉㆊㆋㆌㆍㆎ㆏㆐㆑㆒㆓㆔㆕㆖㆗㆘㆙㆚㆛㆜㆝㆞㆟ㆠㆡㆢㆣㆤㆥㆦㆧㆨㆩㆪㆫㆬㆭㆮㆯㆰㆱㆲㆳㆴㆵㆶㆷㆸㆹㆺㆻㆼㆽㆾㆿ㇀㇁㇂㇃㇄㇅㇆㇇㇈㇉㇊㇋㇌㇍㇎㇏㇐㇑㇒㇓㇔㇕㇖㇗㇘㇙㇚㇛㇜㇝㇞㇟㇠㇡㇢㇣㇤㇥㇦㇧㇨㇩㇪㇫㇬㇭㇮㇯ㇰㇱㇲㇳㇴㇵㇶㇷㇸㇹㇺㇻㇼㇽㇾㇿ",
    "㊀㊁㊂㊃㊄㊅㊆㊇㊈㊉㊊㊋㊌㊍㊎㊏㊐㊑㊒㊓㊔㊕㊖㊗㊘㊙㊚㊛㊜㊝㊞㊟㊠㊡㊢㊣㊤㊥㊦㊧㊨㊩㊪㊫㊬㊭㊮㊯㊰㊱㊲㊳㊴㊵㊶㊷㊸㊹㊺㊻㊼㊽㊾㊿㋀㋁㋂㋃㋄㋅㋆㋇㋈㋉㋊㋋㋌㋍㋎㋏㋐㋑㋒㋓㋔㋕㋖㋗㋘㋙㋚㋛㋜㋝㋞㋟㋠㋡㋢㋣㋤㋥㋦㋧㋨㋩㋪㋫㋬㋭㋮㋯㋰㋱㋲㋳㋴㋵㋶㋷㋸㋹㋺㋻㋼㋽㋾㋿",
    "㎀㎁㎂㎃㎄㎅㎆㎇㎈㎉㎊㎋㎌㎍㎎㎏㎐㎑㎒㎓㎔㎕㎖㎗㎘㎙㎚㎛㎜㎝㎞㎟㎠㎡㎢㎣㎤㎥㎦㎧㎨㎩㎪㎫㎬㎭㎮㎯㎰㎱㎲㎳㎴㎵㎶㎷㎸㎹㎺㎻㎼㎽㎾㎿㏀㏁㏂㏃㏄㏅㏆㏇㏈㏉㏊㏋㏌㏍㏎㏏㏐㏑㏒㏓㏔㏕㏖㏗㏘㏙㏚㏛㏜㏝㏞㏟㏠㏡㏢㏣㏤㏥㏦㏧㏨㏩㏪㏫㏬㏭㏮㏯㏰㏱㏲㏳㏴㏵㏶㏷㏸㏹㏺㏻㏼㏽㏾㏿",
    "㒀㒁㒂㒃㒄㒅㒆㒇㒈㒉㒊㒋㒌㒍㒎㒏㒐㒑㒒㒓㒔㒕㒖㒗㒘㒙㒚㒛㒜㒝㒞㒟㒠㒡㒢㒣㒤㒥㒦㒧㒨㒩㒪㒫㒬㒭㒮㒯㒰㒱㒲㒳㒴㒵㒶㒷㒸㒹㒺㒻㒼㒽㒾㒿㓀㓁㓂㓃㓄㓅㓆㓇㓈㓉㓊㓋㓌㓍㓎㓏㓐㓑㓒㓓㓔㓕㓖㓗㓘㓙㓚㓛㓜㓝㓞㓟㓠㓡㓢㓣㓤㓥㓦㓧㓨㓩㓪㓫㓬㓭㓮㓯㓰㓱㓲㓳㓴㓵㓶㓷㓸㓹㓺㓻㓼㓽㓾㓿",
    "㖀㖁㖂㖃㖄㖅㖆㖇㖈㖉㖊㖋㖌㖍㖎㖏㖐㖑㖒㖓㖔㖕㖖㖗㖘㖙㖚㖛㖜㖝㖞㖟㖠㖡㖢㖣㖤㖥㖦㖧㖨㖩㖪㖫㖬㖭㖮㖯㖰㖱㖲㖳㖴㖵㖶㖷㖸㖹㖺㖻㖼㖽㖾㖿㗀㗁㗂㗃㗄㗅㗆㗇㗈㗉㗊㗋㗌㗍㗎㗏㗐㗑㗒㗓㗔㗕㗖㗗㗘㗙㗚㗛㗜㗝㗞㗟㗠㗡㗢㗣㗤㗥㗦㗧㗨㗩㗪㗫㗬㗭㗮㗯㗰㗱㗲㗳㗴㗵㗶㗷㗸㗹㗺㗻㗼㗽㗾㗿",
    "㚀㚁㚂㚃㚄㚅㚆㚇㚈㚉㚊㚋㚌㚍㚎㚏㚐㚑㚒㚓㚔㚕㚖㚗㚘㚙㚚㚛㚜㚝㚞㚟㚠㚡㚢㚣㚤㚥㚦㚧㚨㚩㚪㚫㚬㚭㚮㚯㚰㚱㚲㚳㚴㚵㚶㚷㚸㚹㚺㚻㚼㚽㚾㚿㛀㛁㛂㛃㛄㛅㛆㛇㛈㛉㛊㛋㛌㛍㛎㛏㛐㛑㛒㛓㛔㛕㛖㛗㛘㛙㛚㛛㛜㛝㛞㛟㛠㛡㛢㛣㛤㛥㛦㛧㛨㛩㛪㛫㛬㛭㛮㛯㛰㛱㛲㛳㛴㛵㛶㛷㛸㛹㛺㛻㛼㛽㛾㛿",
    "㞀㞁㞂㞃㞄㞅㞆㞇㞈㞉㞊㞋㞌㞍㞎㞏㞐㞑㞒㞓㞔㞕㞖㞗㞘㞙㞚㞛㞜㞝㞞㞟㞠㞡㞢㞣㞤㞥㞦㞧㞨㞩㞪㞫㞬㞭㞮㞯㞰㞱㞲㞳㞴㞵㞶㞷㞸㞹㞺㞻㞼㞽㞾㞿㟀㟁㟂㟃㟄㟅㟆㟇㟈㟉㟊㟋㟌㟍㟎㟏㟐㟑㟒㟓㟔㟕㟖㟗㟘㟙㟚㟛㟜㟝㟞㟟㟠㟡㟢㟣㟤㟥㟦㟧㟨㟩㟪㟫㟬㟭㟮㟯㟰㟱㟲㟳㟴㟵㟶㟷㟸㟹㟺㟻㟼㟽㟾㟿",
    "㢀㢁㢂㢃㢄㢅㢆㢇㢈㢉㢊㢋㢌㢍㢎㢏㢐㢑㢒㢓㢔㢕㢖㢗㢘㢙㢚㢛㢜㢝㢞㢟㢠㢡㢢㢣㢤㢥㢦㢧㢨㢩㢪㢫㢬㢭㢮㢯㢰㢱㢲㢳㢴㢵㢶㢷㢸㢹㢺㢻㢼㢽㢾㢿㣀㣁㣂㣃㣄㣅㣆㣇㣈㣉㣊㣋㣌㣍㣎㣏㣐㣑㣒㣓㣔㣕㣖㣗㣘㣙㣚㣛㣜㣝㣞㣟㣠㣡㣢㣣㣤㣥㣦㣧㣨㣩㣪㣫㣬㣭㣮㣯㣰㣱㣲㣳㣴㣵㣶㣷㣸㣹㣺㣻㣼㣽㣾㣿",
    "㦀㦁㦂㦃㦄㦅㦆㦇㦈㦉㦊㦋㦌㦍㦎㦏㦐㦑㦒㦓㦔㦕㦖㦗㦘㦙㦚㦛㦜㦝㦞㦟㦠㦡㦢㦣㦤㦥㦦㦧㦨㦩㦪㦫㦬㦭㦮㦯㦰㦱㦲㦳㦴㦵㦶㦷㦸㦹㦺㦻㦼㦽㦾㦿㧀㧁㧂㧃㧄㧅㧆㧇㧈㧉㧊㧋㧌㧍㧎㧏㧐㧑㧒㧓㧔㧕㧖㧗㧘㧙㧚㧛㧜㧝㧞㧟㧠㧡㧢㧣㧤㧥㧦㧧㧨㧩㧪㧫㧬㧭㧮㧯㧰㧱㧲㧳㧴㧵㧶㧷㧸㧹㧺㧻㧼㧽㧾㧿",
    "㪀㪁㪂㪃㪄㪅㪆㪇㪈㪉㪊㪋㪌㪍㪎㪏㪐㪑㪒㪓㪔㪕㪖㪗㪘㪙㪚㪛㪜㪝㪞㪟㪠㪡㪢㪣㪤㪥㪦㪧㪨㪩㪪㪫㪬㪭㪮㪯㪰㪱㪲㪳㪴㪵㪶㪷㪸㪹㪺㪻㪼㪽㪾㪿㫀㫁㫂㫃㫄㫅㫆㫇㫈㫉㫊㫋㫌㫍㫎㫏㫐㫑㫒㫓㫔㫕㫖㫗㫘㫙㫚㫛㫜㫝㫞㫟㫠㫡㫢㫣㫤㫥㫦㫧㫨㫩㫪㫫㫬㫭㫮㫯㫰㫱㫲㫳㫴㫵㫶㫷㫸㫹㫺㫻㫼㫽㫾㫿",
    "㮀㮁㮂㮃㮄㮅㮆㮇㮈㮉㮊㮋㮌㮍㮎㮏㮐㮑㮒㮓㮔㮕㮖㮗㮘㮙㮚㮛㮜㮝㮞㮟㮠㮡㮢㮣㮤㮥㮦㮧㮨㮩㮪㮫㮬㮭㮮㮯㮰㮱㮲㮳㮴㮵㮶㮷㮸㮹㮺㮻㮼㮽㮾㮿㯀㯁㯂㯃㯄㯅㯆㯇㯈㯉㯊㯋㯌㯍㯎㯏㯐㯑㯒㯓㯔㯕㯖㯗㯘㯙㯚㯛㯜㯝㯞㯟㯠㯡㯢㯣㯤㯥㯦㯧㯨㯩㯪㯫㯬㯭㯮㯯㯰㯱㯲㯳㯴㯵㯶㯷㯸㯹㯺㯻㯼㯽㯾㯿",
    "㲀㲁㲂㲃㲄㲅㲆㲇㲈㲉㲊㲋㲌㲍㲎㲏㲐㲑㲒㲓㲔㲕㲖㲗㲘㲙㲚㲛㲜㲝㲞㲟㲠㲡㲢㲣㲤㲥㲦㲧㲨㲩㲪㲫㲬㲭㲮㲯㲰㲱㲲㲳㲴㲵㲶㲷㲸㲹㲺㲻㲼㲽㲾㲿㳀㳁㳂㳃㳄㳅㳆㳇㳈㳉㳊㳋㳌㳍㳎㳏㳐㳑㳒㳓㳔㳕㳖㳗㳘㳙㳚㳛㳜㳝㳞㳟㳠㳡㳢㳣㳤㳥㳦㳧㳨㳩㳪㳫㳬㳭㳮㳯㳰㳱㳲㳳㳴㳵㳶㳷㳸㳹㳺㳻㳼㳽㳾㳿",
    "㶀㶁㶂㶃㶄㶅㶆㶇㶈㶉㶊㶋㶌㶍㶎㶏㶐㶑㶒㶓㶔㶕㶖㶗㶘㶙㶚㶛㶜㶝㶞㶟㶠㶡㶢㶣㶤㶥㶦㶧㶨㶩㶪㶫㶬㶭㶮㶯㶰㶱㶲㶳㶴㶵㶶㶷㶸㶹㶺㶻㶼㶽㶾㶿㷀㷁㷂㷃㷄㷅㷆㷇㷈㷉㷊㷋㷌㷍㷎㷏㷐㷑㷒㷓㷔㷕㷖㷗㷘㷙㷚㷛㷜㷝㷞㷟㷠㷡㷢㷣㷤㷥㷦㷧㷨㷩㷪㷫㷬㷭㷮㷯㷰㷱㷲㷳㷴㷵㷶㷷㷸㷹㷺㷻㷼㷽㷾㷿",
    "㺀㺁㺂㺃㺄㺅㺆㺇㺈㺉㺊㺋㺌㺍㺎㺏㺐㺑㺒㺓㺔㺕㺖㺗㺘㺙㺚㺛㺜㺝㺞㺟㺠㺡㺢㺣㺤㺥㺦㺧㺨㺩㺪㺫㺬㺭㺮㺯㺰㺱㺲㺳㺴㺵㺶㺷㺸㺹㺺㺻㺼㺽㺾㺿㻀㻁㻂㻃㻄㻅㻆㻇㻈㻉㻊㻋㻌㻍㻎㻏㻐㻑㻒㻓㻔㻕㻖㻗㻘㻙㻚㻛㻜㻝㻞㻟㻠㻡㻢㻣㻤㻥㻦㻧㻨㻩㻪㻫㻬㻭㻮㻯㻰㻱㻲㻳㻴㻵㻶㻷㻸㻹㻺㻻㻼㻽㻾㻿",
    "㾀㾁㾂㾃㾄㾅㾆㾇㾈㾉㾊㾋㾌㾍㾎㾏㾐㾑㾒㾓㾔㾕㾖㾗㾘㾙㾚㾛㾜㾝㾞㾟㾠㾡㾢㾣㾤㾥㾦㾧㾨㾩㾪㾫㾬㾭㾮㾯㾰㾱㾲㾳㾴㾵㾶㾷㾸㾹㾺㾻㾼㾽㾾㾿㿀㿁㿂㿃㿄㿅㿆㿇㿈㿉㿊㿋㿌㿍㿎㿏㿐㿑㿒㿓㿔㿕㿖㿗㿘㿙㿚㿛㿜㿝㿞㿟㿠㿡㿢㿣㿤㿥㿦㿧㿨㿩㿪㿫㿬㿭㿮㿯㿰㿱㿲㿳㿴㿵㿶㿷㿸㿹㿺㿻㿼㿽㿾㿿",
    "䂀䂁䂂䂃䂄䂅䂆䂇䂈䂉䂊䂋䂌䂍䂎䂏䂐䂑䂒䂓䂔䂕䂖䂗䂘䂙䂚䂛䂜䂝䂞䂟䂠䂡䂢䂣䂤䂥䂦䂧䂨䂩䂪䂫䂬䂭䂮䂯䂰䂱䂲䂳䂴䂵䂶䂷䂸䂹䂺䂻䂼䂽䂾䂿䃀䃁䃂䃃䃄䃅䃆䃇䃈䃉䃊䃋䃌䃍䃎䃏䃐䃑䃒䃓䃔䃕䃖䃗䃘䃙䃚䃛䃜䃝䃞䃟䃠䃡䃢䃣䃤䃥䃦䃧䃨䃩䃪䃫䃬䃭䃮䃯䃰䃱䃲䃳䃴䃵䃶䃷䃸䃹䃺䃻䃼䃽䃾䃿",
    "䆀䆁䆂䆃䆄䆅䆆䆇䆈䆉䆊䆋䆌䆍䆎䆏䆐䆑䆒䆓䆔䆕䆖䆗䆘䆙䆚䆛䆜䆝䆞䆟䆠䆡䆢䆣䆤䆥䆦䆧䆨䆩䆪䆫䆬䆭䆮䆯䆰䆱䆲䆳䆴䆵䆶䆷䆸䆹䆺䆻䆼䆽䆾䆿䇀䇁䇂䇃䇄䇅䇆䇇䇈䇉䇊䇋䇌䇍䇎䇏䇐䇑䇒䇓䇔䇕䇖䇗䇘䇙䇚䇛䇜䇝䇞䇟䇠䇡䇢䇣䇤䇥䇦䇧䇨䇩䇪䇫䇬䇭䇮䇯䇰䇱䇲䇳䇴䇵䇶䇷䇸䇹䇺䇻䇼䇽䇾䇿",
    "䊀䊁䊂䊃䊄䊅䊆䊇䊈䊉䊊䊋䊌䊍䊎䊏䊐䊑䊒䊓䊔䊕䊖䊗䊘䊙䊚䊛䊜䊝䊞䊟䊠䊡䊢䊣䊤䊥䊦䊧䊨䊩䊪䊫䊬䊭䊮䊯䊰䊱䊲䊳䊴䊵䊶䊷䊸䊹䊺䊻䊼䊽䊾䊿䋀䋁䋂䋃䋄䋅䋆䋇䋈䋉䋊䋋䋌䋍䋎䋏䋐䋑䋒䋓䋔䋕䋖䋗䋘䋙䋚䋛䋜䋝䋞䋟䋠䋡䋢䋣䋤䋥䋦䋧䋨䋩䋪䋫䋬䋭䋮䋯䋰䋱䋲䋳䋴䋵䋶䋷䋸䋹䋺䋻䋼䋽䋾䋿",
    "䎀䎁䎂䎃䎄䎅䎆䎇䎈䎉䎊䎋䎌䎍䎎䎏䎐䎑䎒䎓䎔䎕䎖䎗䎘䎙䎚䎛䎜䎝䎞䎟䎠䎡䎢䎣䎤䎥䎦䎧䎨䎩䎪䎫䎬䎭䎮䎯䎰䎱䎲䎳䎴䎵䎶䎷䎸䎹䎺䎻䎼䎽䎾䎿䏀䏁䏂䏃䏄䏅䏆䏇䏈䏉䏊䏋䏌䏍䏎䏏䏐䏑䏒䏓䏔䏕䏖䏗䏘䏙䏚䏛䏜䏝䏞䏟䏠䏡䏢䏣䏤䏥䏦䏧䏨䏩䏪䏫䏬䏭䏮䏯䏰䏱䏲䏳䏴䏵䏶䏷䏸䏹䏺䏻䏼䏽䏾䏿",
    "䒀䒁䒂䒃䒄䒅䒆䒇䒈䒉䒊䒋䒌䒍䒎䒏䒐䒑䒒䒓䒔䒕䒖䒗䒘䒙䒚䒛䒜䒝䒞䒟䒠䒡䒢䒣䒤䒥䒦䒧䒨䒩䒪䒫䒬䒭䒮䒯䒰䒱䒲䒳䒴䒵䒶䒷䒸䒹䒺䒻䒼䒽䒾䒿䓀䓁䓂䓃䓄䓅䓆䓇䓈䓉䓊䓋䓌䓍䓎䓏䓐䓑䓒䓓䓔䓕䓖䓗䓘䓙䓚䓛䓜䓝䓞䓟䓠䓡䓢䓣䓤䓥䓦䓧䓨䓩䓪䓫䓬䓭䓮䓯䓰䓱䓲䓳䓴䓵䓶䓷䓸䓹䓺䓻䓼䓽䓾䓿",
    "䖀䖁䖂䖃䖄䖅䖆䖇䖈䖉䖊䖋䖌䖍䖎䖏䖐䖑䖒䖓䖔䖕䖖䖗䖘䖙䖚䖛䖜䖝䖞䖟䖠䖡䖢䖣䖤䖥䖦䖧䖨䖩䖪䖫䖬䖭䖮䖯䖰䖱䖲䖳䖴䖵䖶䖷䖸䖹䖺䖻䖼䖽䖾䖿䗀䗁䗂䗃䗄䗅䗆䗇䗈䗉䗊䗋䗌䗍䗎䗏䗐䗑䗒䗓䗔䗕䗖䗗䗘䗙䗚䗛䗜䗝䗞䗟䗠䗡䗢䗣䗤䗥䗦䗧䗨䗩䗪䗫䗬䗭䗮䗯䗰䗱䗲䗳䗴䗵䗶䗷䗸䗹䗺䗻䗼䗽䗾䗿",
    "䚀䚁䚂䚃䚄䚅䚆䚇䚈䚉䚊䚋䚌䚍䚎䚏䚐䚑䚒䚓䚔䚕䚖䚗䚘䚙䚚䚛䚜䚝䚞䚟䚠䚡䚢䚣䚤䚥䚦䚧䚨䚩䚪䚫䚬䚭䚮䚯䚰䚱䚲䚳䚴䚵䚶䚷䚸䚹䚺䚻䚼䚽䚾䚿䛀䛁䛂䛃䛄䛅䛆䛇䛈䛉䛊䛋䛌䛍䛎䛏䛐䛑䛒䛓䛔䛕䛖䛗䛘䛙䛚䛛䛜䛝䛞䛟䛠䛡䛢䛣䛤䛥䛦䛧䛨䛩䛪䛫䛬䛭䛮䛯䛰䛱䛲䛳䛴䛵䛶䛷䛸䛹䛺䛻䛼䛽䛾䛿",
    "䞀䞁䞂䞃䞄䞅䞆䞇䞈䞉䞊䞋䞌䞍䞎䞏䞐䞑䞒䞓䞔䞕䞖䞗䞘䞙䞚䞛䞜䞝䞞䞟䞠䞡䞢䞣䞤䞥䞦䞧䞨䞩䞪䞫䞬䞭䞮䞯䞰䞱䞲䞳䞴䞵䞶䞷䞸䞹䞺䞻䞼䞽䞾䞿䟀䟁䟂䟃䟄䟅䟆䟇䟈䟉䟊䟋䟌䟍䟎䟏䟐䟑䟒䟓䟔䟕䟖䟗䟘䟙䟚䟛䟜䟝䟞䟟䟠䟡䟢䟣䟤䟥䟦䟧䟨䟩䟪䟫䟬䟭䟮䟯䟰䟱䟲䟳䟴䟵䟶䟷䟸䟹䟺䟻䟼䟽䟾䟿",
    "䢀䢁䢂䢃䢄䢅䢆䢇䢈䢉䢊䢋䢌䢍䢎䢏䢐䢑䢒䢓䢔䢕䢖䢗䢘䢙䢚䢛䢜䢝䢞䢟䢠䢡䢢䢣䢤䢥䢦䢧䢨䢩䢪䢫䢬䢭䢮䢯䢰䢱䢲䢳䢴䢵䢶䢷䢸䢹䢺䢻䢼䢽䢾䢿䣀䣁䣂䣃䣄䣅䣆䣇䣈䣉䣊䣋䣌䣍䣎䣏䣐䣑䣒䣓䣔䣕䣖䣗䣘䣙䣚䣛䣜䣝䣞䣟䣠䣡䣢䣣䣤䣥䣦䣧䣨䣩䣪䣫䣬䣭䣮䣯䣰䣱䣲䣳䣴䣵䣶䣷䣸䣹䣺䣻䣼䣽䣾䣿",
    "䦀䦁䦂䦃䦄䦅䦆䦇䦈䦉䦊䦋䦌䦍䦎䦏䦐䦑䦒䦓䦔䦕䦖䦗䦘䦙䦚䦛䦜䦝䦞䦟䦠䦡䦢䦣䦤䦥䦦䦧䦨䦩䦪䦫䦬䦭䦮䦯䦰䦱䦲䦳䦴䦵䦶䦷䦸䦹䦺䦻䦼䦽䦾䦿䧀䧁䧂䧃䧄䧅䧆䧇䧈䧉䧊䧋䧌䧍䧎䧏䧐䧑䧒䧓䧔䧕䧖䧗䧘䧙䧚䧛䧜䧝䧞䧟䧠䧡䧢䧣䧤䧥䧦䧧䧨䧩䧪䧫䧬䧭䧮䧯䧰䧱䧲䧳䧴䧵䧶䧷䧸䧹䧺䧻䧼䧽䧾䧿",
    "䪀䪁䪂䪃䪄䪅䪆䪇䪈䪉䪊䪋䪌䪍䪎䪏䪐䪑䪒䪓䪔䪕䪖䪗䪘䪙䪚䪛䪜䪝䪞䪟䪠䪡䪢䪣䪤䪥䪦䪧䪨䪩䪪䪫䪬䪭䪮䪯䪰䪱䪲䪳䪴䪵䪶䪷䪸䪹䪺䪻䪼䪽䪾䪿䫀䫁䫂䫃䫄䫅䫆䫇䫈䫉䫊䫋䫌䫍䫎䫏䫐䫑䫒䫓䫔䫕䫖䫗䫘䫙䫚䫛䫜䫝䫞䫟䫠䫡䫢䫣䫤䫥䫦䫧䫨䫩䫪䫫䫬䫭䫮䫯䫰䫱䫲䫳䫴䫵䫶䫷䫸䫹䫺䫻䫼䫽䫾䫿",
    "䮀䮁䮂䮃䮄䮅䮆䮇䮈䮉䮊䮋䮌䮍䮎䮏䮐䮑䮒䮓䮔䮕䮖䮗䮘䮙䮚䮛䮜䮝䮞䮟䮠䮡䮢䮣䮤䮥䮦䮧䮨䮩䮪䮫䮬䮭䮮䮯䮰䮱䮲䮳䮴䮵䮶䮷䮸䮹䮺䮻䮼䮽䮾䮿䯀䯁䯂䯃䯄䯅䯆䯇䯈䯉䯊䯋䯌䯍䯎䯏䯐䯑䯒䯓䯔䯕䯖䯗䯘䯙䯚䯛䯜䯝䯞䯟䯠䯡䯢䯣䯤䯥䯦䯧䯨䯩䯪䯫䯬䯭䯮䯯䯰䯱䯲䯳䯴䯵䯶䯷䯸䯹䯺䯻䯼䯽䯾䯿",
    "䲀䲁䲂䲃䲄䲅䲆䲇䲈䲉䲊䲋䲌䲍䲎䲏䲐䲑䲒䲓䲔䲕䲖䲗䲘䲙䲚䲛䲜䲝䲞䲟䲠䲡䲢䲣䲤䲥䲦䲧䲨䲩䲪䲫䲬䲭䲮䲯䲰䲱䲲䲳䲴䲵䲶䲷䲸䲹䲺䲻䲼䲽䲾䲿䳀䳁䳂䳃䳄䳅䳆䳇䳈䳉䳊䳋䳌䳍䳎䳏䳐䳑䳒䳓䳔䳕䳖䳗䳘䳙䳚䳛䳜䳝䳞䳟䳠䳡䳢䳣䳤䳥䳦䳧䳨䳩䳪䳫䳬䳭䳮䳯䳰䳱䳲䳳䳴䳵䳶䳷䳸䳹䳺䳻䳼䳽䳾䳿",
    "䶀䶁䶂䶃䶄䶅䶆䶇䶈䶉䶊䶋䶌䶍䶎䶏䶐䶑䶒䶓䶔䶕䶖䶗䶘䶙䶚䶛䶜䶝䶞䶟䶠䶡䶢䶣䶤䶥䶦䶧䶨䶩䶪䶫䶬䶭䶮䶯䶰䶱䶲䶳䶴䶵䶶䶷䶸䶹䶺䶻䶼䶽䶾䶿䷀䷁䷂䷃䷄䷅䷆䷇䷈䷉䷊䷋䷌䷍䷎䷏䷐䷑䷒䷓䷔䷕䷖䷗䷘䷙䷚䷛䷜䷝䷞䷟䷠䷡䷢䷣䷤䷥䷦䷧䷨䷩䷪䷫䷬䷭䷮䷯䷰䷱䷲䷳䷴䷵䷶䷷䷸䷹䷺䷻䷼䷽䷾䷿",
    "亀亁亂亃亄亅了亇予争亊事二亍于亏亐云互亓五井亖亗亘亙亚些亜亝亞亟亠亡亢亣交亥亦产亨亩亪享京亭亮亯亰亱亲亳亴亵亶亷亸亹人亻亼亽亾亿什仁仂仃仄仅仆仇仈仉今介仌仍从仏仐仑仒仓仔仕他仗付仙仚仛仜仝仞仟仠仡仢代令以仦仧仨仩仪仫们仭仮仯仰仱仲仳仴仵件价仸仹仺任仼份仾仿",
    "侀侁侂侃侄侅來侇侈侉侊例侌侍侎侏侐侑侒侓侔侕侖侗侘侙侚供侜依侞侟侠価侢侣侤侥侦侧侨侩侪侫侬侭侮侯侰侱侲侳侴侵侶侷侸侹侺侻侼侽侾便俀俁係促俄俅俆俇俈俉俊俋俌俍俎俏俐俑俒俓俔俕俖俗俘俙俚俛俜保俞俟俠信俢俣俤俥俦俧俨俩俪俫俬俭修俯俰俱俲俳俴俵俶俷俸俹俺俻俼俽俾俿",
    "傀傁傂傃傄傅傆傇傈傉傊傋傌傍傎傏傐傑傒傓傔傕傖傗傘備傚傛傜傝傞傟傠傡傢傣傤傥傦傧储傩傪傫催傭傮傯傰傱傲傳傴債傶傷傸傹傺傻傼傽傾傿僀僁僂僃僄僅僆僇僈僉僊僋僌働僎像僐僑僒僓僔僕僖僗僘僙僚僛僜僝僞僟僠僡僢僣僤僥僦僧僨僩僪僫僬僭僮僯僰僱僲僳僴僵僶僷僸價僺僻僼僽僾僿",
    "冀冁冂冃冄内円冇冈冉冊冋册再冎冏冐冑冒冓冔冕冖冗冘写冚军农冝冞冟冠冡冢冣冤冥冦冧冨冩冪冫冬冭冮冯冰冱冲决冴况冶冷冸冹冺冻冼冽冾冿净凁凂凃凄凅准凇凈凉凊凋凌凍凎减凐凑凒凓凔凕凖凗凘凙凚凛凜凝凞凟几凡凢凣凤凥処凧凨凩凪凫凬凭凮凯凰凱凲凳凴凵凶凷凸凹出击凼函凾凿",
    "劀劁劂劃劄劅劆劇劈劉劊劋劌劍劎劏劐劑劒劓劔劕劖劗劘劙劚力劜劝办功加务劢劣劤劥劦劧动助努劫劬劭劮劯劰励劲劳労劵劶劷劸効劺劻劼劽劾势勀勁勂勃勄勅勆勇勈勉勊勋勌勍勎勏勐勑勒勓勔動勖勗勘務勚勛勜勝勞募勠勡勢勣勤勥勦勧勨勩勪勫勬勭勮勯勰勱勲勳勴勵勶勷勸勹勺勻勼勽勾勿",
    "厀厁厂厃厄厅历厇厈厉厊压厌厍厎厏厐厑厒厓厔厕厖厗厘厙厚厛厜厝厞原厠厡厢厣厤厥厦厧厨厩厪厫厬厭厮厯厰厱厲厳厴厵厶厷厸厹厺去厼厽厾县叀叁参參叄叅叆叇又叉及友双反収叏叐发叒叓叔叕取受变叙叚叛叜叝叞叟叠叡叢口古句另叧叨叩只叫召叭叮可台叱史右叴叵叶号司叹叺叻叼叽叾叿",
    "咀咁咂咃咄咅咆咇咈咉咊咋和咍咎咏咐咑咒咓咔咕咖咗咘咙咚咛咜咝咞咟咠咡咢咣咤咥咦咧咨咩咪咫咬咭咮咯咰咱咲咳咴咵咶咷咸咹咺咻咼咽咾咿哀品哂哃哄哅哆哇哈哉哊哋哌响哎哏哐哑哒哓哔哕哖哗哘哙哚哛哜哝哞哟哠員哢哣哤哥哦哧哨哩哪哫哬哭哮哯哰哱哲哳哴哵哶哷哸哹哺哻哼哽哾哿",
    "喀喁喂喃善喅喆喇喈喉喊喋喌喍喎喏喐喑喒喓喔喕喖喗喘喙喚喛喜喝喞喟喠喡喢喣喤喥喦喧喨喩喪喫喬喭單喯喰喱喲喳喴喵営喷喸喹喺喻喼喽喾喿嗀嗁嗂嗃嗄嗅嗆嗇嗈嗉嗊嗋嗌嗍嗎嗏嗐嗑嗒嗓嗔嗕嗖嗗嗘嗙嗚嗛嗜嗝嗞嗟嗠嗡嗢嗣嗤嗥嗦嗧嗨嗩嗪嗫嗬嗭嗮嗯嗰嗱嗲嗳嗴嗵嗶嗷嗸嗹嗺嗻嗼嗽嗾嗿",
    "嚀嚁嚂嚃嚄嚅嚆嚇嚈嚉嚊嚋嚌嚍嚎嚏嚐嚑嚒嚓嚔嚕嚖嚗嚘嚙嚚嚛嚜嚝嚞嚟嚠嚡嚢嚣嚤嚥嚦嚧嚨嚩嚪嚫嚬嚭嚮嚯嚰嚱嚲嚳嚴嚵嚶嚷嚸嚹嚺嚻嚼嚽嚾嚿囀囁囂囃囄囅囆囇囈囉囊囋囌囍囎囏囐囑囒囓囔囕囖囗囘囙囚四囜囝回囟因囡团団囤囥囦囧囨囩囪囫囬园囮囯困囱囲図围囵囶囷囸囹固囻囼国图囿",
    "垀垁垂垃垄垅垆垇垈垉垊型垌垍垎垏垐垑垒垓垔垕垖垗垘垙垚垛垜垝垞垟垠垡垢垣垤垥垦垧垨垩垪垫垬垭垮垯垰垱垲垳垴垵垶垷垸垹垺垻垼垽垾垿埀埁埂埃埄埅埆埇埈埉埊埋埌埍城埏埐埑埒埓埔埕埖埗埘埙埚埛埜埝埞域埠埡埢埣埤埥埦埧埨埩埪埫埬埭埮埯埰埱埲埳埴埵埶執埸培基埻埼埽埾埿",
    "墀墁墂境墄墅墆墇墈墉墊墋墌墍墎墏墐墑墒墓墔墕墖増墘墙墚墛墜墝增墟墠墡墢墣墤墥墦墧墨墩墪墫墬墭墮墯墰墱墲墳墴墵墶墷墸墹墺墻墼墽墾墿壀壁壂壃壄壅壆壇壈壉壊壋壌壍壎壏壐壑壒壓壔壕壖壗壘壙壚壛壜壝壞壟壠壡壢壣壤壥壦壧壨壩壪士壬壭壮壯声壱売壳壴壵壶壷壸壹壺壻壼壽壾壿",
    "妀妁如妃妄妅妆妇妈妉妊妋妌妍妎妏妐妑妒妓妔妕妖妗妘妙妚妛妜妝妞妟妠妡妢妣妤妥妦妧妨妩妪妫妬妭妮妯妰妱妲妳妴妵妶妷妸妹妺妻妼妽妾妿姀姁姂姃姄姅姆姇姈姉姊始姌姍姎姏姐姑姒姓委姕姖姗姘姙姚姛姜姝姞姟姠姡姢姣姤姥姦姧姨姩姪姫姬姭姮姯姰姱姲姳姴姵姶姷姸姹姺姻姼姽姾姿",
    "媀媁媂媃媄媅媆媇媈媉媊媋媌媍媎媏媐媑媒媓媔媕媖媗媘媙媚媛媜媝媞媟媠媡媢媣媤媥媦媧媨媩媪媫媬媭媮媯媰媱媲媳媴媵媶媷媸媹媺媻媼媽媾媿嫀嫁嫂嫃嫄嫅嫆嫇嫈嫉嫊嫋嫌嫍嫎嫏嫐嫑嫒嫓嫔嫕嫖嫗嫘嫙嫚嫛嫜嫝嫞嫟嫠嫡嫢嫣嫤嫥嫦嫧嫨嫩嫪嫫嫬嫭嫮嫯嫰嫱嫲嫳嫴嫵嫶嫷嫸嫹嫺嫻嫼嫽嫾嫿",
    "宀宁宂它宄宅宆宇守安宊宋完宍宎宏宐宑宒宓宔宕宖宗官宙定宛宜宝实実宠审客宣室宥宦宧宨宩宪宫宬宭宮宯宰宱宲害宴宵家宷宸容宺宻宼宽宾宿寀寁寂寃寄寅密寇寈寉寊寋富寍寎寏寐寑寒寓寔寕寖寗寘寙寚寛寜寝寞察寠寡寢寣寤寥實寧寨審寪寫寬寭寮寯寰寱寲寳寴寵寶寷寸对寺寻导寽対寿",
    "岀岁岂岃岄岅岆岇岈岉岊岋岌岍岎岏岐岑岒岓岔岕岖岗岘岙岚岛岜岝岞岟岠岡岢岣岤岥岦岧岨岩岪岫岬岭岮岯岰岱岲岳岴岵岶岷岸岹岺岻岼岽岾岿峀峁峂峃峄峅峆峇峈峉峊峋峌峍峎峏峐峑峒峓峔峕峖峗峘峙峚峛峜峝峞峟峠峡峢峣峤峥峦峧峨峩峪峫峬峭峮峯峰峱峲峳峴峵島峷峸峹峺峻峼峽峾峿",
    "嶀嶁嶂嶃嶄嶅嶆嶇嶈嶉嶊嶋嶌嶍嶎嶏嶐嶑嶒嶓嶔嶕嶖嶗嶘嶙嶚嶛嶜嶝嶞嶟嶠嶡嶢嶣嶤嶥嶦嶧嶨嶩嶪嶫嶬嶭嶮嶯嶰嶱嶲嶳嶴嶵嶶嶷嶸嶹嶺嶻嶼嶽嶾嶿巀巁巂巃巄巅巆巇巈巉巊巋巌巍巎巏巐巑巒巓巔巕巖巗巘巙巚巛巜川州巟巠巡巢巣巤工左巧巨巩巪巫巬巭差巯巰己已巳巴巵巶巷巸巹巺巻巼巽巾巿",
    "庀庁庂広庄庅庆庇庈庉床庋庌庍庎序庐庑庒库应底庖店庘庙庚庛府庝庞废庠庡庢庣庤庥度座庨庩庪庫庬庭庮庯庰庱庲庳庴庵庶康庸庹庺庻庼庽庾庿廀廁廂廃廄廅廆廇廈廉廊廋廌廍廎廏廐廑廒廓廔廕廖廗廘廙廚廛廜廝廞廟廠廡廢廣廤廥廦廧廨廩廪廫廬廭廮廯廰廱廲廳廴廵延廷廸廹建廻廼廽廾廿",
    "往征徂徃径待徆徇很徉徊律後徍徎徏徐徑徒従徔徕徖得徘徙徚徛徜徝從徟徠御徢徣徤徥徦徧徨復循徫徬徭微徯徰徱徲徳徴徵徶德徸徹徺徻徼徽徾徿忀忁忂心忄必忆忇忈忉忊忋忌忍忎忏忐忑忒忓忔忕忖志忘忙忚忛応忝忞忟忠忡忢忣忤忥忦忧忨忩忪快忬忭忮忯忰忱忲忳忴念忶忷忸忹忺忻忼忽忾忿",
    "悀悁悂悃悄悅悆悇悈悉悊悋悌悍悎悏悐悑悒悓悔悕悖悗悘悙悚悛悜悝悞悟悠悡悢患悤悥悦悧您悩悪悫悬悭悮悯悰悱悲悳悴悵悶悷悸悹悺悻悼悽悾悿惀惁惂惃惄情惆惇惈惉惊惋惌惍惎惏惐惑惒惓惔惕惖惗惘惙惚惛惜惝惞惟惠惡惢惣惤惥惦惧惨惩惪惫惬惭惮惯惰惱惲想惴惵惶惷惸惹惺惻惼惽惾惿",
    "憀憁憂憃憄憅憆憇憈憉憊憋憌憍憎憏憐憑憒憓憔憕憖憗憘憙憚憛憜憝憞憟憠憡憢憣憤憥憦憧憨憩憪憫憬憭憮憯憰憱憲憳憴憵憶憷憸憹憺憻憼憽憾憿懀懁懂懃懄懅懆懇懈應懊懋懌懍懎懏懐懑懒懓懔懕懖懗懘懙懚懛懜懝懞懟懠懡懢懣懤懥懦懧懨懩懪懫懬懭懮懯懰懱懲懳懴懵懶懷懸懹懺懻懼懽懾懿",
    "技抁抂抃抄抅抆抇抈抉把抋抌抍抎抏抐抑抒抓抔投抖抗折抙抚抛抜抝択抟抠抡抢抣护报抦抧抨抩抪披抬抭抮抯抰抱抲抳抴抵抶抷抸抹抺抻押抽抾抿拀拁拂拃拄担拆拇拈拉拊拋拌拍拎拏拐拑拒拓拔拕拖拗拘拙拚招拜拝拞拟拠拡拢拣拤拥拦拧拨择拪拫括拭拮拯拰拱拲拳拴拵拶拷拸拹拺拻拼拽拾拿",
    "掀掁掂掃掄掅掆掇授掉掊掋掌掍掎掏掐掑排掓掔掕掖掗掘掙掚掛掜掝掞掟掠採探掣掤接掦控推掩措掫掬掭掮掯掰掱掲掳掴掵掶掷掸掹掺掻掼掽掾掿揀揁揂揃揄揅揆揇揈揉揊揋揌揍揎描提揑插揓揔揕揖揗揘揙揚換揜揝揞揟揠握揢揣揤揥揦揧揨揩揪揫揬揭揮揯揰揱揲揳援揵揶揷揸揹揺揻揼揽揾揿",
    "撀撁撂撃撄撅撆撇撈撉撊撋撌撍撎撏撐撑撒撓撔撕撖撗撘撙撚撛撜撝撞撟撠撡撢撣撤撥撦撧撨撩撪撫撬播撮撯撰撱撲撳撴撵撶撷撸撹撺撻撼撽撾撿擀擁擂擃擄擅擆擇擈擉擊擋擌操擎擏擐擑擒擓擔擕擖擗擘擙據擛擜擝擞擟擠擡擢擣擤擥擦擧擨擩擪擫擬擭擮擯擰擱擲擳擴擵擶擷擸擹擺擻擼擽擾擿",
    "斀斁斂斃斄斅斆文斈斉斊斋斌斍斎斏斐斑斒斓斔斕斖斗斘料斚斛斜斝斞斟斠斡斢斣斤斥斦斧斨斩斪斫斬断斮斯新斱斲斳斴斵斶斷斸方斺斻於施斾斿旀旁旂旃旄旅旆旇旈旉旊旋旌旍旎族旐旑旒旓旔旕旖旗旘旙旚旛旜旝旞旟无旡既旣旤日旦旧旨早旪旫旬旭旮旯旰旱旲旳旴旵时旷旸旹旺旻旼旽旾旿",
    "暀暁暂暃暄暅暆暇暈暉暊暋暌暍暎暏暐暑暒暓暔暕暖暗暘暙暚暛暜暝暞暟暠暡暢暣暤暥暦暧暨暩暪暫暬暭暮暯暰暱暲暳暴暵暶暷暸暹暺暻暼暽暾暿曀曁曂曃曄曅曆曇曈曉曊曋曌曍曎曏曐曑曒曓曔曕曖曗曘曙曚曛曜曝曞曟曠曡曢曣曤曥曦曧曨曩曪曫曬曭曮曯曰曱曲曳更曵曶曷書曹曺曻曼曽曾替",
    "枀极枂枃构枅枆枇枈枉枊枋枌枍枎枏析枑枒枓枔枕枖林枘枙枚枛果枝枞枟枠枡枢枣枤枥枦枧枨枩枪枫枬枭枮枯枰枱枲枳枴枵架枷枸枹枺枻枼枽枾枿柀柁柂柃柄柅柆柇柈柉柊柋柌柍柎柏某柑柒染柔柕柖柗柘柙柚柛柜柝柞柟柠柡柢柣柤查柦柧柨柩柪柫柬柭柮柯柰柱柲柳柴柵柶柷柸柹柺査柼柽柾柿",
    "梀梁梂梃梄梅梆梇梈梉梊梋梌梍梎梏梐梑梒梓梔梕梖梗梘梙梚梛梜條梞梟梠梡梢梣梤梥梦梧梨梩梪梫梬梭梮梯械梱梲梳梴梵梶梷梸梹梺梻梼梽梾梿检棁棂棃棄棅棆棇棈棉棊棋棌棍棎棏棐棑棒棓棔棕棖棗棘棙棚棛棜棝棞棟棠棡棢棣棤棥棦棧棨棩棪棫棬棭森棯棰棱棲棳棴棵棶棷棸棹棺棻棼棽棾棿",
    "榀榁概榃榄榅榆榇榈榉榊榋榌榍榎榏榐榑榒榓榔榕榖榗榘榙榚榛榜榝榞榟榠榡榢榣榤榥榦榧榨榩榪榫榬榭榮榯榰榱榲榳榴榵榶榷榸榹榺榻榼榽榾榿槀槁槂槃槄槅槆槇槈槉槊構槌槍槎槏槐槑槒槓槔槕槖槗様槙槚槛槜槝槞槟槠槡槢槣槤槥槦槧槨槩槪槫槬槭槮槯槰槱槲槳槴槵槶槷槸槹槺槻槼槽槾槿",
    "檀檁檂檃檄檅檆檇檈檉檊檋檌檍檎檏檐檑檒檓檔檕檖檗檘檙檚檛檜檝檞檟檠檡檢檣檤檥檦檧檨檩檪檫檬檭檮檯檰檱檲檳檴檵檶檷檸檹檺檻檼檽檾檿櫀櫁櫂櫃櫄櫅櫆櫇櫈櫉櫊櫋櫌櫍櫎櫏櫐櫑櫒櫓櫔櫕櫖櫗櫘櫙櫚櫛櫜櫝櫞櫟櫠櫡櫢櫣櫤櫥櫦櫧櫨櫩櫪櫫櫬櫭櫮櫯櫰櫱櫲櫳櫴櫵櫶櫷櫸櫹櫺櫻櫼櫽櫾櫿",
    "殀殁殂殃殄殅殆殇殈殉殊残殌殍殎殏殐殑殒殓殔殕殖殗殘殙殚殛殜殝殞殟殠殡殢殣殤殥殦殧殨殩殪殫殬殭殮殯殰殱殲殳殴段殶殷殸殹殺殻殼殽殾殿毀毁毂毃毄毅毆毇毈毉毊毋毌母毎每毐毑毒毓比毕毖毗毘毙毚毛毜毝毞毟毠毡毢毣毤毥毦毧毨毩毪毫毬毭毮毯毰毱毲毳毴毵毶毷毸毹毺毻毼毽毾毿",
    "沀沁沂沃沄沅沆沇沈沉沊沋沌沍沎沏沐沑沒沓沔沕沖沗沘沙沚沛沜沝沞沟沠没沢沣沤沥沦沧沨沩沪沫沬沭沮沯沰沱沲河沴沵沶沷沸油沺治沼沽沾沿泀況泂泃泄泅泆泇泈泉泊泋泌泍泎泏泐泑泒泓泔法泖泗泘泙泚泛泜泝泞泟泠泡波泣泤泥泦泧注泩泪泫泬泭泮泯泰泱泲泳泴泵泶泷泸泹泺泻泼泽泾泿",
    "涀涁涂涃涄涅涆涇消涉涊涋涌涍涎涏涐涑涒涓涔涕涖涗涘涙涚涛涜涝涞涟涠涡涢涣涤涥润涧涨涩涪涫涬涭涮涯涰涱液涳涴涵涶涷涸涹涺涻涼涽涾涿淀淁淂淃淄淅淆淇淈淉淊淋淌淍淎淏淐淑淒淓淔淕淖淗淘淙淚淛淜淝淞淟淠淡淢淣淤淥淦淧淨淩淪淫淬淭淮淯淰深淲淳淴淵淶混淸淹淺添淼淽淾淿",
    "満溁溂溃溄溅溆溇溈溉溊溋溌溍溎溏源溑溒溓溔溕準溗溘溙溚溛溜溝溞溟溠溡溢溣溤溥溦溧溨溩溪溫溬溭溮溯溰溱溲溳溴溵溶溷溸溹溺溻溼溽溾溿滀滁滂滃滄滅滆滇滈滉滊滋滌滍滎滏滐滑滒滓滔滕滖滗滘滙滚滛滜滝滞滟滠满滢滣滤滥滦滧滨滩滪滫滬滭滮滯滰滱滲滳滴滵滶滷滸滹滺滻滼滽滾滿",
    "澀澁澂澃澄澅澆澇澈澉澊澋澌澍澎澏澐澑澒澓澔澕澖澗澘澙澚澛澜澝澞澟澠澡澢澣澤澥澦澧澨澩澪澫澬澭澮澯澰澱澲澳澴澵澶澷澸澹澺澻澼澽澾澿激濁濂濃濄濅濆濇濈濉濊濋濌濍濎濏濐濑濒濓濔濕濖濗濘濙濚濛濜濝濞濟濠濡濢濣濤濥濦濧濨濩濪濫濬濭濮濯濰濱濲濳濴濵濶濷濸濹濺濻濼濽濾濿",
    "炀炁炂炃炄炅炆炇炈炉炊炋炌炍炎炏炐炑炒炓炔炕炖炗炘炙炚炛炜炝炞炟炠炡炢炣炤炥炦炧炨炩炪炫炬炭炮炯炰炱炲炳炴炵炶炷炸点為炻炼炽炾炿烀烁烂烃烄烅烆烇烈烉烊烋烌烍烎烏烐烑烒烓烔烕烖烗烘烙烚烛烜烝烞烟烠烡烢烣烤烥烦烧烨烩烪烫烬热烮烯烰烱烲烳烴烵烶烷烸烹烺烻烼烽烾烿",
    "熀熁熂熃熄熅熆熇熈熉熊熋熌熍熎熏熐熑熒熓熔熕熖熗熘熙熚熛熜熝熞熟熠熡熢熣熤熥熦熧熨熩熪熫熬熭熮熯熰熱熲熳熴熵熶熷熸熹熺熻熼熽熾熿燀燁燂燃燄燅燆燇燈燉燊燋燌燍燎燏燐燑燒燓燔燕燖燗燘燙燚燛燜燝燞營燠燡燢燣燤燥燦燧燨燩燪燫燬燭燮燯燰燱燲燳燴燵燶燷燸燹燺燻燼燽燾燿",
    "犀犁犂犃犄犅犆犇犈犉犊犋犌犍犎犏犐犑犒犓犔犕犖犗犘犙犚犛犜犝犞犟犠犡犢犣犤犥犦犧犨犩犪犫犬犭犮犯犰犱犲犳犴犵状犷犸犹犺犻犼犽犾犿狀狁狂狃狄狅狆狇狈狉狊狋狌狍狎狏狐狑狒狓狔狕狖狗狘狙狚狛狜狝狞狟狠狡狢狣狤狥狦狧狨狩狪狫独狭狮狯狰狱狲狳狴狵狶狷狸狹狺狻狼狽狾狿",
    "玀玁玂玃玄玅玆率玈玉玊王玌玍玎玏玐玑玒玓玔玕玖玗玘玙玚玛玜玝玞玟玠玡玢玣玤玥玦玧玨玩玪玫玬玭玮环现玱玲玳玴玵玶玷玸玹玺玻玼玽玾玿珀珁珂珃珄珅珆珇珈珉珊珋珌珍珎珏珐珑珒珓珔珕珖珗珘珙珚珛珜珝珞珟珠珡珢珣珤珥珦珧珨珩珪珫珬班珮珯珰珱珲珳珴珵珶珷珸珹珺珻珼珽現珿",
    "璀璁璂璃璄璅璆璇璈璉璊璋璌璍璎璏璐璑璒璓璔璕璖璗璘璙璚璛璜璝璞璟璠璡璢璣璤璥璦璧璨璩璪璫璬璭璮璯環璱璲璳璴璵璶璷璸璹璺璻璼璽璾璿瓀瓁瓂瓃瓄瓅瓆瓇瓈瓉瓊瓋瓌瓍瓎瓏瓐瓑瓒瓓瓔瓕瓖瓗瓘瓙瓚瓛瓜瓝瓞瓟瓠瓡瓢瓣瓤瓥瓦瓧瓨瓩瓪瓫瓬瓭瓮瓯瓰瓱瓲瓳瓴瓵瓶瓷瓸瓹瓺瓻瓼瓽瓾瓿",
    "疀疁疂疃疄疅疆疇疈疉疊疋疌疍疎疏疐疑疒疓疔疕疖疗疘疙疚疛疜疝疞疟疠疡疢疣疤疥疦疧疨疩疪疫疬疭疮疯疰疱疲疳疴疵疶疷疸疹疺疻疼疽疾疿痀痁痂痃痄病痆症痈痉痊痋痌痍痎痏痐痑痒痓痔痕痖痗痘痙痚痛痜痝痞痟痠痡痢痣痤痥痦痧痨痩痪痫痬痭痮痯痰痱痲痳痴痵痶痷痸痹痺痻痼痽痾痿",
    "皀皁皂皃的皅皆皇皈皉皊皋皌皍皎皏皐皑皒皓皔皕皖皗皘皙皚皛皜皝皞皟皠皡皢皣皤皥皦皧皨皩皪皫皬皭皮皯皰皱皲皳皴皵皶皷皸皹皺皻皼皽皾皿盀盁盂盃盄盅盆盇盈盉益盋盌盍盎盏盐监盒盓盔盕盖盗盘盙盚盛盜盝盞盟盠盡盢監盤盥盦盧盨盩盪盫盬盭目盯盰盱盲盳直盵盶盷相盹盺盻盼盽盾盿",
    "瞀瞁瞂瞃瞄瞅瞆瞇瞈瞉瞊瞋瞌瞍瞎瞏瞐瞑瞒瞓瞔瞕瞖瞗瞘瞙瞚瞛瞜瞝瞞瞟瞠瞡瞢瞣瞤瞥瞦瞧瞨瞩瞪瞫瞬瞭瞮瞯瞰瞱瞲瞳瞴瞵瞶瞷瞸瞹瞺瞻瞼瞽瞾瞿矀矁矂矃矄矅矆矇矈矉矊矋矌矍矎矏矐矑矒矓矔矕矖矗矘矙矚矛矜矝矞矟矠矡矢矣矤知矦矧矨矩矪矫矬短矮矯矰矱矲石矴矵矶矷矸矹矺矻矼矽矾矿",
    "碀碁碂碃碄碅碆碇碈碉碊碋碌碍碎碏碐碑碒碓碔碕碖碗碘碙碚碛碜碝碞碟碠碡碢碣碤碥碦碧碨碩碪碫碬碭碮碯碰碱碲碳碴碵碶碷碸碹確碻碼碽碾碿磀磁磂磃磄磅磆磇磈磉磊磋磌磍磎磏磐磑磒磓磔磕磖磗磘磙磚磛磜磝磞磟磠磡磢磣磤磥磦磧磨磩磪磫磬磭磮磯磰磱磲磳磴磵磶磷磸磹磺磻磼磽磾磿",
    "禀禁禂禃禄禅禆禇禈禉禊禋禌禍禎福禐禑禒禓禔禕禖禗禘禙禚禛禜禝禞禟禠禡禢禣禤禥禦禧禨禩禪禫禬禭禮禯禰禱禲禳禴禵禶禷禸禹禺离禼禽禾禿秀私秂秃秄秅秆秇秈秉秊秋秌种秎秏秐科秒秓秔秕秖秗秘秙秚秛秜秝秞租秠秡秢秣秤秥秦秧秨秩秪秫秬秭秮积称秱秲秳秴秵秶秷秸秹秺移秼秽秾秿",
    "窀突窂窃窄窅窆窇窈窉窊窋窌窍窎窏窐窑窒窓窔窕窖窗窘窙窚窛窜窝窞窟窠窡窢窣窤窥窦窧窨窩窪窫窬窭窮窯窰窱窲窳窴窵窶窷窸窹窺窻窼窽窾窿竀竁竂竃竄竅竆竇竈竉竊立竌竍竎竏竐竑竒竓竔竕竖竗竘站竚竛竜竝竞竟章竡竢竣竤童竦竧竨竩竪竫竬竭竮端竰竱竲竳竴竵競竷竸竹竺竻竼竽竾竿",
    "简箁箂箃箄箅箆箇箈箉箊箋箌箍箎箏箐箑箒箓箔箕箖算箘箙箚箛箜箝箞箟箠管箢箣箤箥箦箧箨箩箪箫箬箭箮箯箰箱箲箳箴箵箶箷箸箹箺箻箼箽箾箿節篁篂篃範篅篆篇篈築篊篋篌篍篎篏篐篑篒篓篔篕篖篗篘篙篚篛篜篝篞篟篠篡篢篣篤篥篦篧篨篩篪篫篬篭篮篯篰篱篲篳篴篵篶篷篸篹篺篻篼篽篾篿",
    "粀粁粂粃粄粅粆粇粈粉粊粋粌粍粎粏粐粑粒粓粔粕粖粗粘粙粚粛粜粝粞粟粠粡粢粣粤粥粦粧粨粩粪粫粬粭粮粯粰粱粲粳粴粵粶粷粸粹粺粻粼粽精粿糀糁糂糃糄糅糆糇糈糉糊糋糌糍糎糏糐糑糒糓糔糕糖糗糘糙糚糛糜糝糞糟糠糡糢糣糤糥糦糧糨糩糪糫糬糭糮糯糰糱糲糳糴糵糶糷糸糹糺系糼糽糾糿",
    "綀綁綂綃綄綅綆綇綈綉綊綋綌綍綎綏綐綑綒經綔綕綖綗綘継続綛綜綝綞綟綠綡綢綣綤綥綦綧綨綩綪綫綬維綮綯綰綱網綳綴綵綶綷綸綹綺綻綼綽綾綿緀緁緂緃緄緅緆緇緈緉緊緋緌緍緎総緐緑緒緓緔緕緖緗緘緙線緛緜緝緞緟締緡緢緣緤緥緦緧編緩緪緫緬緭緮緯緰緱緲緳練緵緶緷緸緹緺緻緼緽緾緿",
    "纀纁纂纃纄纅纆纇纈纉纊纋續纍纎纏纐纑纒纓纔纕纖纗纘纙纚纛纜纝纞纟纠纡红纣纤纥约级纨纩纪纫纬纭纮纯纰纱纲纳纴纵纶纷纸纹纺纻纼纽纾线绀绁绂练组绅细织终绉绊绋绌绍绎经绐绑绒结绔绕绖绗绘给绚绛络绝绞统绠绡绢绣绤绥绦继绨绩绪绫绬续绮绯绰绱绲绳维绵绶绷绸绹绺绻综绽绾绿",
    "羀羁羂羃羄羅羆羇羈羉羊羋羌羍美羏羐羑羒羓羔羕羖羗羘羙羚羛羜羝羞羟羠羡羢羣群羥羦羧羨義羪羫羬羭羮羯羰羱羲羳羴羵羶羷羸羹羺羻羼羽羾羿翀翁翂翃翄翅翆翇翈翉翊翋翌翍翎翏翐翑習翓翔翕翖翗翘翙翚翛翜翝翞翟翠翡翢翣翤翥翦翧翨翩翪翫翬翭翮翯翰翱翲翳翴翵翶翷翸翹翺翻翼翽翾翿",
    "肀肁肂肃肄肅肆肇肈肉肊肋肌肍肎肏肐肑肒肓肔肕肖肗肘肙肚肛肜肝肞肟肠股肢肣肤肥肦肧肨肩肪肫肬肭肮肯肰肱育肳肴肵肶肷肸肹肺肻肼肽肾肿胀胁胂胃胄胅胆胇胈胉胊胋背胍胎胏胐胑胒胓胔胕胖胗胘胙胚胛胜胝胞胟胠胡胢胣胤胥胦胧胨胩胪胫胬胭胮胯胰胱胲胳胴胵胶胷胸胹胺胻胼能胾胿",
    "膀膁膂膃膄膅膆膇膈膉膊膋膌膍膎膏膐膑膒膓膔膕膖膗膘膙膚膛膜膝膞膟膠膡膢膣膤膥膦膧膨膩膪膫膬膭膮膯膰膱膲膳膴膵膶膷膸膹膺膻膼膽膾膿臀臁臂臃臄臅臆臇臈臉臊臋臌臍臎臏臐臑臒臓臔臕臖臗臘臙臚臛臜臝臞臟臠臡臢臣臤臥臦臧臨臩自臫臬臭臮臯臰臱臲至致臵臶臷臸臹臺臻臼臽臾臿",
    "芀芁节芃芄芅芆芇芈芉芊芋芌芍芎芏芐芑芒芓芔芕芖芗芘芙芚芛芜芝芞芟芠芡芢芣芤芥芦芧芨芩芪芫芬芭芮芯芰花芲芳芴芵芶芷芸芹芺芻芼芽芾芿苀苁苂苃苄苅苆苇苈苉苊苋苌苍苎苏苐苑苒苓苔苕苖苗苘苙苚苛苜苝苞苟苠苡苢苣苤若苦苧苨苩苪苫苬苭苮苯苰英苲苳苴苵苶苷苸苹苺苻苼苽苾苿",
    "莀莁莂莃莄莅莆莇莈莉莊莋莌莍莎莏莐莑莒莓莔莕莖莗莘莙莚莛莜莝莞莟莠莡莢莣莤莥莦莧莨莩莪莫莬莭莮莯莰莱莲莳莴莵莶获莸莹莺莻莼莽莾莿菀菁菂菃菄菅菆菇菈菉菊菋菌菍菎菏菐菑菒菓菔菕菖菗菘菙菚菛菜菝菞菟菠菡菢菣菤菥菦菧菨菩菪菫菬菭菮華菰菱菲菳菴菵菶菷菸菹菺菻菼菽菾菿",
    "蒀蒁蒂蒃蒄蒅蒆蒇蒈蒉蒊蒋蒌蒍蒎蒏蒐蒑蒒蒓蒔蒕蒖蒗蒘蒙蒚蒛蒜蒝蒞蒟蒠蒡蒢蒣蒤蒥蒦蒧蒨蒩蒪蒫蒬蒭蒮蒯蒰蒱蒲蒳蒴蒵蒶蒷蒸蒹蒺蒻蒼蒽蒾蒿蓀蓁蓂蓃蓄蓅蓆蓇蓈蓉蓊蓋蓌蓍蓎蓏蓐蓑蓒蓓蓔蓕蓖蓗蓘蓙蓚蓛蓜蓝蓞蓟蓠蓡蓢蓣蓤蓥蓦蓧蓨蓩蓪蓫蓬蓭蓮蓯蓰蓱蓲蓳蓴蓵蓶蓷蓸蓹蓺蓻蓼蓽蓾蓿",
    "薀薁薂薃薄薅薆薇薈薉薊薋薌薍薎薏薐薑薒薓薔薕薖薗薘薙薚薛薜薝薞薟薠薡薢薣薤薥薦薧薨薩薪薫薬薭薮薯薰薱薲薳薴薵薶薷薸薹薺薻薼薽薾薿藀藁藂藃藄藅藆藇藈藉藊藋藌藍藎藏藐藑藒藓藔藕藖藗藘藙藚藛藜藝藞藟藠藡藢藣藤藥藦藧藨藩藪藫藬藭藮藯藰藱藲藳藴藵藶藷藸藹藺藻藼藽藾藿",
    "蚀蚁蚂蚃蚄蚅蚆蚇蚈蚉蚊蚋蚌蚍蚎蚏蚐蚑蚒蚓蚔蚕蚖蚗蚘蚙蚚蚛蚜蚝蚞蚟蚠蚡蚢蚣蚤蚥蚦蚧蚨蚩蚪蚫蚬蚭蚮蚯蚰蚱蚲蚳蚴蚵蚶蚷蚸蚹蚺蚻蚼蚽蚾蚿蛀蛁蛂蛃蛄蛅蛆蛇蛈蛉蛊蛋蛌蛍蛎蛏蛐蛑蛒蛓蛔蛕蛖蛗蛘蛙蛚蛛蛜蛝蛞蛟蛠蛡蛢蛣蛤蛥蛦蛧蛨蛩蛪蛫蛬蛭蛮蛯蛰蛱蛲蛳蛴蛵蛶蛷蛸蛹蛺蛻蛼蛽蛾蛿",
    "螀螁螂螃螄螅螆螇螈螉螊螋螌融螎螏螐螑螒螓螔螕螖螗螘螙螚螛螜螝螞螟螠螡螢螣螤螥螦螧螨螩螪螫螬螭螮螯螰螱螲螳螴螵螶螷螸螹螺螻螼螽螾螿蟀蟁蟂蟃蟄蟅蟆蟇蟈蟉蟊蟋蟌蟍蟎蟏蟐蟑蟒蟓蟔蟕蟖蟗蟘蟙蟚蟛蟜蟝蟞蟟蟠蟡蟢蟣蟤蟥蟦蟧蟨蟩蟪蟫蟬蟭蟮蟯蟰蟱蟲蟳蟴蟵蟶蟷蟸蟹蟺蟻蟼蟽蟾蟿",
    "袀袁袂袃袄袅袆袇袈袉袊袋袌袍袎袏袐袑袒袓袔袕袖袗袘袙袚袛袜袝袞袟袠袡袢袣袤袥袦袧袨袩袪被袬袭袮袯袰袱袲袳袴袵袶袷袸袹袺袻袼袽袾袿裀裁裂裃裄装裆裇裈裉裊裋裌裍裎裏裐裑裒裓裔裕裖裗裘裙裚裛補裝裞裟裠裡裢裣裤裥裦裧裨裩裪裫裬裭裮裯裰裱裲裳裴裵裶裷裸裹裺裻裼製裾裿",
    "覀要覂覃覄覅覆覇覈覉覊見覌覍覎規覐覑覒覓覔覕視覗覘覙覚覛覜覝覞覟覠覡覢覣覤覥覦覧覨覩親覫覬覭覮覯覰覱覲観覴覵覶覷覸覹覺覻覼覽覾覿觀见观觃规觅视觇览觉觊觋觌觍觎觏觐觑角觓觔觕觖觗觘觙觚觛觜觝觞觟觠觡觢解觤觥触觧觨觩觪觫觬觭觮觯觰觱觲觳觴觵觶觷觸觹觺觻觼觽觾觿",
    "誀誁誂誃誄誅誆誇誈誉誊誋誌認誎誏誐誑誒誓誔誕誖誗誘誙誚誛誜誝語誟誠誡誢誣誤誥誦誧誨誩說誫説読誮誯誰誱課誳誴誵誶誷誸誹誺誻誼誽誾調諀諁諂諃諄諅諆談諈諉諊請諌諍諎諏諐諑諒諓諔諕論諗諘諙諚諛諜諝諞諟諠諡諢諣諤諥諦諧諨諩諪諫諬諭諮諯諰諱諲諳諴諵諶諷諸諹諺諻諼諽諾諿",
    "讀讁讂讃讄讅讆讇讈讉變讋讌讍讎讏讐讑讒讓讔讕讖讗讘讙讚讛讜讝讞讟讠计订讣认讥讦讧讨让讪讫讬训议讯记讱讲讳讴讵讶讷许讹论讻讼讽设访诀证诂诃评诅识诇诈诉诊诋诌词诎诏诐译诒诓诔试诖诗诘诙诚诛诜话诞诟诠诡询诣诤该详诧诨诩诪诫诬语诮误诰诱诲诳说诵诶请诸诹诺读诼诽课诿",
    "貀貁貂貃貄貅貆貇貈貉貊貋貌貍貎貏貐貑貒貓貔貕貖貗貘貙貚貛貜貝貞貟負財貢貣貤貥貦貧貨販貪貫責貭貮貯貰貱貲貳貴貵貶買貸貹貺費貼貽貾貿賀賁賂賃賄賅賆資賈賉賊賋賌賍賎賏賐賑賒賓賔賕賖賗賘賙賚賛賜賝賞賟賠賡賢賣賤賥賦賧賨賩質賫賬賭賮賯賰賱賲賳賴賵賶賷賸賹賺賻購賽賾賿",
    "趀趁趂趃趄超趆趇趈趉越趋趌趍趎趏趐趑趒趓趔趕趖趗趘趙趚趛趜趝趞趟趠趡趢趣趤趥趦趧趨趩趪趫趬趭趮趯趰趱趲足趴趵趶趷趸趹趺趻趼趽趾趿跀跁跂跃跄跅跆跇跈跉跊跋跌跍跎跏跐跑跒跓跔跕跖跗跘跙跚跛跜距跞跟跠跡跢跣跤跥跦跧跨跩跪跫跬跭跮路跰跱跲跳跴践跶跷跸跹跺跻跼跽跾跿",
    "躀躁躂躃躄躅躆躇躈躉躊躋躌躍躎躏躐躑躒躓躔躕躖躗躘躙躚躛躜躝躞躟躠躡躢躣躤躥躦躧躨躩躪身躬躭躮躯躰躱躲躳躴躵躶躷躸躹躺躻躼躽躾躿軀軁軂軃軄軅軆軇軈軉車軋軌軍軎軏軐軑軒軓軔軕軖軗軘軙軚軛軜軝軞軟軠軡転軣軤軥軦軧軨軩軪軫軬軭軮軯軰軱軲軳軴軵軶軷軸軹軺軻軼軽軾軿",
    "辀辁辂较辄辅辆辇辈辉辊辋辌辍辎辏辐辑辒输辔辕辖辗辘辙辚辛辜辝辞辟辠辡辢辣辤辥辦辧辨辩辪辫辬辭辮辯辰辱農辳辴辵辶辷辸边辺辻込辽达辿迀迁迂迃迄迅迆过迈迉迊迋迌迍迎迏运近迒迓返迕迖迗还这迚进远违连迟迠迡迢迣迤迥迦迧迨迩迪迫迬迭迮迯述迱迲迳迴迵迶迷迸迹迺迻迼追迾迿",
    "邀邁邂邃還邅邆邇邈邉邊邋邌邍邎邏邐邑邒邓邔邕邖邗邘邙邚邛邜邝邞邟邠邡邢那邤邥邦邧邨邩邪邫邬邭邮邯邰邱邲邳邴邵邶邷邸邹邺邻邼邽邾邿郀郁郂郃郄郅郆郇郈郉郊郋郌郍郎郏郐郑郒郓郔郕郖郗郘郙郚郛郜郝郞郟郠郡郢郣郤郥郦郧部郩郪郫郬郭郮郯郰郱郲郳郴郵郶郷郸郹郺郻郼都郾郿",
    "醀醁醂醃醄醅醆醇醈醉醊醋醌醍醎醏醐醑醒醓醔醕醖醗醘醙醚醛醜醝醞醟醠醡醢醣醤醥醦醧醨醩醪醫醬醭醮醯醰醱醲醳醴醵醶醷醸醹醺醻醼醽醾醿釀釁釂釃釄釅釆采釈釉释釋里重野量釐金釒釓釔釕釖釗釘釙釚釛釜針釞釟釠釡釢釣釤釥釦釧釨釩釪釫釬釭釮釯釰釱釲釳釴釵釶釷釸釹釺釻釼釽釾釿",
    "銀銁銂銃銄銅銆銇銈銉銊銋銌銍銎銏銐銑銒銓銔銕銖銗銘銙銚銛銜銝銞銟銠銡銢銣銤銥銦銧銨銩銪銫銬銭銮銯銰銱銲銳銴銵銶銷銸銹銺銻銼銽銾銿鋀鋁鋂鋃鋄鋅鋆鋇鋈鋉鋊鋋鋌鋍鋎鋏鋐鋑鋒鋓鋔鋕鋖鋗鋘鋙鋚鋛鋜鋝鋞鋟鋠鋡鋢鋣鋤鋥鋦鋧鋨鋩鋪鋫鋬鋭鋮鋯鋰鋱鋲鋳鋴鋵鋶鋷鋸鋹鋺鋻鋼鋽鋾鋿",
    "鎀鎁鎂鎃鎄鎅鎆鎇鎈鎉鎊鎋鎌鎍鎎鎏鎐鎑鎒鎓鎔鎕鎖鎗鎘鎙鎚鎛鎜鎝鎞鎟鎠鎡鎢鎣鎤鎥鎦鎧鎨鎩鎪鎫鎬鎭鎮鎯鎰鎱鎲鎳鎴鎵鎶鎷鎸鎹鎺鎻鎼鎽鎾鎿鏀鏁鏂鏃鏄鏅鏆鏇鏈鏉鏊鏋鏌鏍鏎鏏鏐鏑鏒鏓鏔鏕鏖鏗鏘鏙鏚鏛鏜鏝鏞鏟鏠鏡鏢鏣鏤鏥鏦鏧鏨鏩鏪鏫鏬鏭鏮鏯鏰鏱鏲鏳鏴鏵鏶鏷鏸鏹鏺鏻鏼鏽鏾鏿",
    "钀钁钂钃钄钅钆钇针钉钊钋钌钍钎钏钐钑钒钓钔钕钖钗钘钙钚钛钜钝钞钟钠钡钢钣钤钥钦钧钨钩钪钫钬钭钮钯钰钱钲钳钴钵钶钷钸钹钺钻钼钽钾钿铀铁铂铃铄铅铆铇铈铉铊铋铌铍铎铏铐铑铒铓铔铕铖铗铘铙铚铛铜铝铞铟铠铡铢铣铤铥铦铧铨铩铪铫铬铭铮铯铰铱铲铳铴铵银铷铸铹铺铻铼铽链铿",
    "門閁閂閃閄閅閆閇閈閉閊開閌閍閎閏閐閑閒間閔閕閖閗閘閙閚閛閜閝閞閟閠閡関閣閤閥閦閧閨閩閪閫閬閭閮閯閰閱閲閳閴閵閶閷閸閹閺閻閼閽閾閿闀闁闂闃闄闅闆闇闈闉闊闋闌闍闎闏闐闑闒闓闔闕闖闗闘闙闚闛關闝闞闟闠闡闢闣闤闥闦闧门闩闪闫闬闭问闯闰闱闲闳间闵闶闷闸闹闺闻闼闽闾闿",
    "隀隁隂隃隄隅隆隇隈隉隊隋隌隍階随隐隑隒隓隔隕隖隗隘隙隚際障隝隞隟隠隡隢隣隤隥隦隧隨隩險隫隬隭隮隯隰隱隲隳隴隵隶隷隸隹隺隻隼隽难隿雀雁雂雃雄雅集雇雈雉雊雋雌雍雎雏雐雑雒雓雔雕雖雗雘雙雚雛雜雝雞雟雠雡離難雤雥雦雧雨雩雪雫雬雭雮雯雰雱雲雳雴雵零雷雸雹雺電雼雽雾雿",
    "鞀鞁鞂鞃鞄鞅鞆鞇鞈鞉鞊鞋鞌鞍鞎鞏鞐鞑鞒鞓鞔鞕鞖鞗鞘鞙鞚鞛鞜鞝鞞鞟鞠鞡鞢鞣鞤鞥鞦鞧鞨鞩鞪鞫鞬鞭鞮鞯鞰鞱鞲鞳鞴鞵鞶鞷鞸鞹鞺鞻鞼鞽鞾鞿韀韁韂韃韄韅韆韇韈韉韊韋韌韍韎韏韐韑韒韓韔韕韖韗韘韙韚韛韜韝韞韟韠韡韢韣韤韥韦韧韨韩韪韫韬韭韮韯韰韱韲音韴韵韶韷韸韹韺韻韼韽韾響",
    "颀颁颂颃预颅领颇颈颉颊颋颌颍颎颏颐频颒颓颔颕颖颗题颙颚颛颜额颞颟颠颡颢颣颤颥颦颧風颩颪颫颬颭颮颯颰颱颲颳颴颵颶颷颸颹颺颻颼颽颾颿飀飁飂飃飄飅飆飇飈飉飊飋飌飍风飏飐飑飒飓飔飕飖飗飘飙飚飛飜飝飞食飠飡飢飣飤飥飦飧飨飩飪飫飬飭飮飯飰飱飲飳飴飵飶飷飸飹飺飻飼飽飾飿",
    "馀馁馂馃馄馅馆馇馈馉馊馋馌馍馎馏馐馑馒馓馔馕首馗馘香馚馛馜馝馞馟馠馡馢馣馤馥馦馧馨馩馪馫馬馭馮馯馰馱馲馳馴馵馶馷馸馹馺馻馼馽馾馿駀駁駂駃駄駅駆駇駈駉駊駋駌駍駎駏駐駑駒駓駔駕駖駗駘駙駚駛駜駝駞駟駠駡駢駣駤駥駦駧駨駩駪駫駬駭駮駯駰駱駲駳駴駵駶駷駸駹駺駻駼駽駾駿",
    "骀骁骂骃骄骅骆骇骈骉骊骋验骍骎骏骐骑骒骓骔骕骖骗骘骙骚骛骜骝骞骟骠骡骢骣骤骥骦骧骨骩骪骫骬骭骮骯骰骱骲骳骴骵骶骷骸骹骺骻骼骽骾骿髀髁髂髃髄髅髆髇髈髉髊髋髌髍髎髏髐髑髒髓體髕髖髗高髙髚髛髜髝髞髟髠髡髢髣髤髥髦髧髨髩髪髫髬髭髮髯髰髱髲髳髴髵髶髷髸髹髺髻髼髽髾髿",
    "鮀鮁鮂鮃鮄鮅鮆鮇鮈鮉鮊鮋鮌鮍鮎鮏鮐鮑鮒鮓鮔鮕鮖鮗鮘鮙鮚鮛鮜鮝鮞鮟鮠鮡鮢鮣鮤鮥鮦鮧鮨鮩鮪鮫鮬鮭鮮鮯鮰鮱鮲鮳鮴鮵鮶鮷鮸鮹鮺鮻鮼鮽鮾鮿鯀鯁鯂鯃鯄鯅鯆鯇鯈鯉鯊鯋鯌鯍鯎鯏鯐鯑鯒鯓鯔鯕鯖鯗鯘鯙鯚鯛鯜鯝鯞鯟鯠鯡鯢鯣鯤鯥鯦鯧鯨鯩鯪鯫鯬鯭鯮鯯鯰鯱鯲鯳鯴鯵鯶鯷鯸鯹鯺鯻鯼鯽鯾鯿",
    "鲀鲁鲂鲃鲄鲅鲆鲇鲈鲉鲊鲋鲌鲍鲎鲏鲐鲑鲒鲓鲔鲕鲖鲗鲘鲙鲚鲛鲜鲝鲞鲟鲠鲡鲢鲣鲤鲥鲦鲧鲨鲩鲪鲫鲬鲭鲮鲯鲰鲱鲲鲳鲴鲵鲶鲷鲸鲹鲺鲻鲼鲽鲾鲿鳀鳁鳂鳃鳄鳅鳆鳇鳈鳉鳊鳋鳌鳍鳎鳏鳐鳑鳒鳓鳔鳕鳖鳗鳘鳙鳚鳛鳜鳝鳞鳟鳠鳡鳢鳣鳤鳥鳦鳧鳨鳩鳪鳫鳬鳭鳮鳯鳰鳱鳲鳳鳴鳵鳶鳷鳸鳹鳺鳻鳼鳽鳾鳿",
    "鶀鶁鶂鶃鶄鶅鶆鶇鶈鶉鶊鶋鶌鶍鶎鶏鶐鶑鶒鶓鶔鶕鶖鶗鶘鶙鶚鶛鶜鶝鶞鶟鶠鶡鶢鶣鶤鶥鶦鶧鶨鶩鶪鶫鶬鶭鶮鶯鶰鶱鶲鶳鶴鶵鶶鶷鶸鶹鶺鶻鶼鶽鶾鶿鷀鷁鷂鷃鷄鷅鷆鷇鷈鷉鷊鷋鷌鷍鷎鷏鷐鷑鷒鷓鷔鷕鷖鷗鷘鷙鷚鷛鷜鷝鷞鷟鷠鷡鷢鷣鷤鷥鷦鷧鷨鷩鷪鷫鷬鷭鷮鷯鷰鷱鷲鷳鷴鷵鷶鷷鷸鷹鷺鷻鷼鷽鷾鷿",
    "麀麁麂麃麄麅麆麇麈麉麊麋麌麍麎麏麐麑麒麓麔麕麖麗麘麙麚麛麜麝麞麟麠麡麢麣麤麥麦麧麨麩麪麫麬麭麮麯麰麱麲麳麴麵麶麷麸麹麺麻麼麽麾麿黀黁黂黃黄黅黆黇黈黉黊黋黌黍黎黏黐黑黒黓黔黕黖黗默黙黚黛黜黝點黟黠黡黢黣黤黥黦黧黨黩黪黫黬黭黮黯黰黱黲黳黴黵黶黷黸黹黺黻黼黽黾黿",
    "龀龁龂龃龄龅龆龇龈龉龊龋龌龍龎龏龐龑龒龓龔龕龖龗龘龙龚龛龜龝龞龟龠龡龢龣龤龥龦龧龨龩龪龫龬龭龮龯龰龱龲龳龴龵龶龷龸龹龺龻龼龽龾龿鿀鿁鿂鿃鿄鿅鿆鿇鿈鿉鿊鿋鿌鿍鿎鿏鿐鿑鿒鿓鿔鿕鿖鿗鿘鿙鿚鿛鿜鿝鿞鿟鿠鿡鿢鿣鿤鿥鿦鿧鿨鿩鿪鿫鿬鿭鿮鿯鿰鿱鿲鿳鿴鿵鿶鿷鿸鿹鿺鿻鿼鿽鿾鿿",
    "ꂀꂁꂂꂃꂄꂅꂆꂇꂈꂉꂊꂋꂌꂍꂎꂏꂐꂑꂒꂓꂔꂕꂖꂗꂘꂙꂚꂛꂜꂝꂞꂟꂠꂡꂢꂣꂤꂥꂦꂧꂨꂩꂪꂫꂬꂭꂮꂯꂰꂱꂲꂳꂴꂵꂶꂷꂸꂹꂺꂻꂼꂽꂾꂿꃀꃁꃂꃃꃄꃅꃆꃇꃈꃉꃊꃋꃌꃍꃎꃏꃐꃑꃒꃓꃔꃕꃖꃗꃘꃙꃚꃛꃜꃝꃞꃟꃠꃡꃢꃣꃤꃥꃦꃧꃨꃩꃪꃫꃬꃭꃮꃯꃰꃱꃲꃳꃴꃵꃶꃷꃸꃹꃺꃻꃼꃽꃾꃿ",
    "ꆀꆁꆂꆃꆄꆅꆆꆇꆈꆉꆊꆋꆌꆍꆎꆏꆐꆑꆒꆓꆔꆕꆖꆗꆘꆙꆚꆛꆜꆝꆞꆟꆠꆡꆢꆣꆤꆥꆦꆧꆨꆩꆪꆫꆬꆭꆮꆯꆰꆱꆲꆳꆴꆵꆶꆷꆸꆹꆺꆻꆼꆽꆾꆿꇀꇁꇂꇃꇄꇅꇆꇇꇈꇉꇊꇋꇌꇍꇎꇏꇐꇑꇒꇓꇔꇕꇖꇗꇘꇙꇚꇛꇜꇝꇞꇟꇠꇡꇢꇣꇤꇥꇦꇧꇨꇩꇪꇫꇬꇭꇮꇯꇰꇱꇲꇳꇴꇵꇶꇷꇸꇹꇺꇻꇼꇽꇾꇿ",
    "ꊀꊁꊂꊃꊄꊅꊆꊇꊈꊉꊊꊋꊌꊍꊎꊏꊐꊑꊒꊓꊔꊕꊖꊗꊘꊙꊚꊛꊜꊝꊞꊟꊠꊡꊢꊣꊤꊥꊦꊧꊨꊩꊪꊫꊬꊭꊮꊯꊰꊱꊲꊳꊴꊵꊶꊷꊸꊹꊺꊻꊼꊽꊾꊿꋀꋁꋂꋃꋄꋅꋆꋇꋈꋉꋊꋋꋌꋍꋎꋏꋐꋑꋒꋓꋔꋕꋖꋗꋘꋙꋚꋛꋜꋝꋞꋟꋠꋡꋢꋣꋤꋥꋦꋧꋨꋩꋪꋫꋬꋭꋮꋯꋰꋱꋲꋳꋴꋵꋶꋷꋸꋹꋺꋻꋼꋽꋾꋿ",
    "ꎀꎁꎂꎃꎄꎅꎆꎇꎈꎉꎊꎋꎌꎍꎎꎏꎐꎑꎒꎓꎔꎕꎖꎗꎘꎙꎚꎛꎜꎝꎞꎟꎠꎡꎢꎣꎤꎥꎦꎧꎨꎩꎪꎫꎬꎭꎮꎯꎰꎱꎲꎳꎴꎵꎶꎷꎸꎹꎺꎻꎼꎽꎾꎿꏀꏁꏂꏃꏄꏅꏆꏇꏈꏉꏊꏋꏌꏍꏎꏏꏐꏑꏒꏓꏔꏕꏖꏗꏘꏙꏚꏛꏜꏝꏞꏟꏠꏡꏢꏣꏤꏥꏦꏧꏨꏩꏪꏫꏬꏭꏮꏯꏰꏱꏲꏳꏴꏵꏶꏷꏸꏹꏺꏻꏼꏽꏾꏿ",
    "ꒀꒁꒂꒃꒄꒅꒆꒇꒈꒉꒊꒋꒌ꒍꒎꒏꒐꒑꒒꒓꒔꒕꒖꒗꒘꒙꒚꒛꒜꒝꒞꒟꒠꒡꒢꒣꒤꒥꒦꒧꒨꒩꒪꒫꒬꒭꒮꒯꒰꒱꒲꒳꒴꒵꒶꒷꒸꒹꒺꒻꒼꒽꒾꒿꓀꓁꓂꓃꓄꓅꓆꓇꓈꓉꓊꓋꓌꓍꓎꓏ꓐꓑꓒꓓꓔꓕꓖꓗꓘꓙꓚꓛꓜꓝꓞꓟꓠꓡꓢꓣꓤꓥꓦꓧꓨꓩꓪꓫꓬꓭꓮꓯꓰꓱꓲꓳꓴꓵꓶꓷꓸꓹꓺꓻꓼꓽ꓾꓿",
    "ꖀꖁꖂꖃꖄꖅꖆꖇꖈꖉꖊꖋꖌꖍꖎꖏꖐꖑꖒꖓꖔꖕꖖꖗꖘꖙꖚꖛꖜꖝꖞꖟꖠꖡꖢꖣꖤꖥꖦꖧꖨꖩꖪꖫꖬꖭꖮꖯꖰꖱꖲꖳꖴꖵꖶꖷꖸꖹꖺꖻꖼꖽꖾꖿꗀꗁꗂꗃꗄꗅꗆꗇꗈꗉꗊꗋꗌꗍꗎꗏꗐꗑꗒꗓꗔꗕꗖꗗꗘꗙꗚꗛꗜꗝꗞꗟꗠꗡꗢꗣꗤꗥꗦꗧꗨꗩꗪꗫꗬꗭꗮꗯꗰꗱꗲꗳꗴꗵꗶꗷꗸꗹꗺꗻꗼꗽꗾꗿ",
    "ꚀꚁꚂꚃꚄꚅꚆꚇꚈꚉꚊꚋꚌꚍꚎꚏꚐꚑꚒꚓꚔꚕꚖꚗꚘꚙꚚꚛꚜꚝꚞꚟꚠꚡꚢꚣꚤꚥꚦꚧꚨꚩꚪꚫꚬꚭꚮꚯꚰꚱꚲꚳꚴꚵꚶꚷꚸꚹꚺꚻꚼꚽꚾꚿꛀꛁꛂꛃꛄꛅꛆꛇꛈꛉꛊꛋꛌꛍꛎꛏꛐꛑꛒꛓꛔꛕꛖꛗꛘꛙꛚꛛꛜꛝꛞꛟꛠꛡꛢꛣꛤꛥꛦꛧꛨꛩꛪꛫꛬꛭꛮꛯ꛰꛱꛲꛳꛴꛵꛶꛷꛸꛹꛺꛻꛼꛽꛾꛿",
    "ꞀꞁꞂꞃꞄꞅꞆꞇꞈ꞉꞊ꞋꞌꞍꞎꞏꞐꞑꞒꞓꞔꞕꞖꞗꞘꞙꞚꞛꞜꞝꞞꞟꞠꞡꞢꞣꞤꞥꞦꞧꞨꞩꞪꞫꞬꞭꞮꞯꞰꞱꞲꞳꞴꞵꞶꞷꞸꞹꞺꞻꞼꞽꞾꞿꟀꟁꟂꟃꟄꟅꟆꟇꟈꟉꟊꟋꟌꟍ꟎꟏Ꟑꟑ꟒ꟓ꟔ꟕꟖꟗꟘꟙꟚꟛꟜ꟝꟞꟟꟠꟡꟢꟣꟤꟥꟦꟧꟨꟩꟪꟫꟬꟭꟮꟯꟰꟱ꟲꟳꟴꟵꟶꟷꟸꟹꟺꟻꟼꟽꟾꟿ",
    "ꢀꢁꢂꢃꢄꢅꢆꢇꢈꢉꢊꢋꢌꢍꢎꢏꢐꢑꢒꢓꢔꢕꢖꢗꢘꢙꢚꢛꢜꢝꢞꢟꢠꢡꢢꢣꢤꢥꢦꢧꢨꢩꢪꢫꢬꢭꢮꢯꢰꢱꢲꢳꢴꢵꢶꢷꢸꢹꢺꢻꢼꢽꢾꢿꣀꣁꣂꣃ꣄ꣅ꣆꣇꣈꣉꣊꣋꣌꣍꣎꣏꣐꣑꣒꣓꣔꣕꣖꣗꣘꣙꣚꣛꣜꣝꣞꣟꣠꣡꣢꣣꣤꣥꣦꣧꣨꣩꣪꣫꣬꣭꣮꣯꣰꣱ꣲꣳꣴꣵꣶꣷ꣸꣹꣺ꣻ꣼ꣽꣾꣿ",
    "ꦀꦁꦂꦃꦄꦅꦆꦇꦈꦉꦊꦋꦌꦍꦎꦏꦐꦑꦒꦓꦔꦕꦖꦗꦘꦙꦚꦛꦜꦝꦞꦟꦠꦡꦢꦣꦤꦥꦦꦧꦨꦩꦪꦫꦬꦭꦮꦯꦰꦱꦲ꦳ꦴꦵꦶꦷꦸꦹꦺꦻꦼꦽꦾꦿ꧀꧁꧂꧃꧄꧅꧆꧇꧈꧉꧊꧋꧌꧍꧎ꧏ꧐꧑꧒꧓꧔꧕꧖꧗꧘꧙꧚꧛꧜꧝꧞꧟ꧠꧡꧢꧣꧤꧥꧦꧧꧨꧩꧪꧫꧬꧭꧮꧯ꧰꧱꧲꧳꧴꧵꧶꧷꧸꧹ꧺꧻꧼꧽꧾ꧿",
    "ꪀꪁꪂꪃꪄꪅꪆꪇꪈꪉꪊꪋꪌꪍꪎꪏꪐꪑꪒꪓꪔꪕꪖꪗꪘꪙꪚꪛꪜꪝꪞꪟꪠꪡꪢꪣꪤꪥꪦꪧꪨꪩꪪꪫꪬꪭꪮꪯꪰꪱꪴꪲꪳꪵꪶꪷꪸꪹꪺꪻꪼꪽꪾ꪿ꫀ꫁ꫂ꫃꫄꫅꫆꫇꫈꫉꫊꫋꫌꫍꫎꫏꫐꫑꫒꫓꫔꫕꫖꫗꫘꫙꫚ꫛꫜꫝ꫞꫟ꫠꫡꫢꫣꫤꫥꫦꫧꫨꫩꫪꫫꫬꫭꫮꫯ꫰꫱ꫲꫳꫴꫵ꫶꫷꫸꫹꫺꫻꫼꫽꫾꫿",
    "ꮀꮁꮂꮃꮄꮅꮆꮇꮈꮉꮊꮋꮌꮍꮎꮏꮐꮑꮒꮓꮔꮕꮖꮗꮘꮙꮚꮛꮜꮝꮞꮟꮠꮡꮢꮣꮤꮥꮦꮧꮨꮩꮪꮫꮬꮭꮮꮯꮰꮱꮲꮳꮴꮵꮶꮷꮸꮹꮺꮻꮼꮽꮾꮿꯀꯁꯂꯃꯄꯅꯆꯇꯈꯉꯊꯋꯌꯍꯎꯏꯐꯑꯒꯓꯔꯕꯖꯗꯘꯙꯚꯛꯜꯝꯞꯟꯠꯡꯢꯣꯤꯥꯦꯧꯨꯩꯪ꯫꯬꯭꯮꯯꯰꯱꯲꯳꯴꯵꯶꯷꯸꯹꯺꯻꯼꯽꯾꯿",
    "검겁겂것겄겅겆겇겈겉겊겋게겍겎겏겐겑겒겓겔겕겖겗겘겙겚겛겜겝겞겟겠겡겢겣겤겥겦겧겨격겪겫견겭겮겯결겱겲겳겴겵겶겷겸겹겺겻겼경겾겿곀곁곂곃계곅곆곇곈곉곊곋곌곍곎곏곐곑곒곓곔곕곖곗곘곙곚곛곜곝곞곟고곡곢곣곤곥곦곧골곩곪곫곬곭곮곯곰곱곲곳곴공곶곷곸곹곺곻과곽곾곿",
    "궀궁궂궃궄궅궆궇궈궉궊궋권궍궎궏궐궑궒궓궔궕궖궗궘궙궚궛궜궝궞궟궠궡궢궣궤궥궦궧궨궩궪궫궬궭궮궯궰궱궲궳궴궵궶궷궸궹궺궻궼궽궾궿귀귁귂귃귄귅귆귇귈귉귊귋귌귍귎귏귐귑귒귓귔귕귖귗귘귙귚귛규귝귞귟균귡귢귣귤귥귦귧귨귩귪귫귬귭귮귯귰귱귲귳귴귵귶귷그극귺귻근귽귾귿",
    "꺀꺁꺂꺃꺄꺅꺆꺇꺈꺉꺊꺋꺌꺍꺎꺏꺐꺑꺒꺓꺔꺕꺖꺗꺘꺙꺚꺛꺜꺝꺞꺟꺠꺡꺢꺣꺤꺥꺦꺧꺨꺩꺪꺫꺬꺭꺮꺯꺰꺱꺲꺳꺴꺵꺶꺷꺸꺹꺺꺻꺼꺽꺾꺿껀껁껂껃껄껅껆껇껈껉껊껋껌껍껎껏껐껑껒껓껔껕껖껗께껙껚껛껜껝껞껟껠껡껢껣껤껥껦껧껨껩껪껫껬껭껮껯껰껱껲껳껴껵껶껷껸껹껺껻껼껽껾껿",
    "꾀꾁꾂꾃꾄꾅꾆꾇꾈꾉꾊꾋꾌꾍꾎꾏꾐꾑꾒꾓꾔꾕꾖꾗꾘꾙꾚꾛꾜꾝꾞꾟꾠꾡꾢꾣꾤꾥꾦꾧꾨꾩꾪꾫꾬꾭꾮꾯꾰꾱꾲꾳꾴꾵꾶꾷꾸꾹꾺꾻꾼꾽꾾꾿꿀꿁꿂꿃꿄꿅꿆꿇꿈꿉꿊꿋꿌꿍꿎꿏꿐꿑꿒꿓꿔꿕꿖꿗꿘꿙꿚꿛꿜꿝꿞꿟꿠꿡꿢꿣꿤꿥꿦꿧꿨꿩꿪꿫꿬꿭꿮꿯꿰꿱꿲꿳꿴꿵꿶꿷꿸꿹꿺꿻꿼꿽꿾꿿",
    "낀낁낂낃낄낅낆낇낈낉낊낋낌낍낎낏낐낑낒낓낔낕낖낗나낙낚낛난낝낞낟날낡낢낣낤낥낦낧남납낪낫났낭낮낯낰낱낲낳내낵낶낷낸낹낺낻낼낽낾낿냀냁냂냃냄냅냆냇냈냉냊냋냌냍냎냏냐냑냒냓냔냕냖냗냘냙냚냛냜냝냞냟냠냡냢냣냤냥냦냧냨냩냪냫냬냭냮냯냰냱냲냳냴냵냶냷냸냹냺냻냼냽냾냿",
    "놀놁놂놃놄놅놆놇놈놉놊놋놌농놎놏놐놑높놓놔놕놖놗놘놙놚놛놜놝놞놟놠놡놢놣놤놥놦놧놨놩놪놫놬놭놮놯놰놱놲놳놴놵놶놷놸놹놺놻놼놽놾놿뇀뇁뇂뇃뇄뇅뇆뇇뇈뇉뇊뇋뇌뇍뇎뇏뇐뇑뇒뇓뇔뇕뇖뇗뇘뇙뇚뇛뇜뇝뇞뇟뇠뇡뇢뇣뇤뇥뇦뇧뇨뇩뇪뇫뇬뇭뇮뇯뇰뇱뇲뇳뇴뇵뇶뇷뇸뇹뇺뇻뇼뇽뇾뇿",
    "늀늁늂늃늄늅늆늇늈늉늊늋늌늍늎늏느늑늒늓는늕늖늗늘늙늚늛늜늝늞늟늠늡늢늣늤능늦늧늨늩늪늫늬늭늮늯늰늱늲늳늴늵늶늷늸늹늺늻늼늽늾늿닀닁닂닃닄닅닆닇니닉닊닋닌닍닎닏닐닑닒닓닔닕닖닗님닙닚닛닜닝닞닟닠닡닢닣다닥닦닧단닩닪닫달닭닮닯닰닱닲닳담답닶닷닸당닺닻닼닽닾닿",
    "뎀뎁뎂뎃뎄뎅뎆뎇뎈뎉뎊뎋뎌뎍뎎뎏뎐뎑뎒뎓뎔뎕뎖뎗뎘뎙뎚뎛뎜뎝뎞뎟뎠뎡뎢뎣뎤뎥뎦뎧뎨뎩뎪뎫뎬뎭뎮뎯뎰뎱뎲뎳뎴뎵뎶뎷뎸뎹뎺뎻뎼뎽뎾뎿돀돁돂돃도독돆돇돈돉돊돋돌돍돎돏돐돑돒돓돔돕돖돗돘동돚돛돜돝돞돟돠돡돢돣돤돥돦돧돨돩돪돫돬돭돮돯돰돱돲돳돴돵돶돷돸돹돺돻돼돽돾돿",
    "뒀뒁뒂뒃뒄뒅뒆뒇뒈뒉뒊뒋뒌뒍뒎뒏뒐뒑뒒뒓뒔뒕뒖뒗뒘뒙뒚뒛뒜뒝뒞뒟뒠뒡뒢뒣뒤뒥뒦뒧뒨뒩뒪뒫뒬뒭뒮뒯뒰뒱뒲뒳뒴뒵뒶뒷뒸뒹뒺뒻뒼뒽뒾뒿듀듁듂듃듄듅듆듇듈듉듊듋듌듍듎듏듐듑듒듓듔듕듖듗듘듙듚듛드득듞듟든듡듢듣들듥듦듧듨듩듪듫듬듭듮듯듰등듲듳듴듵듶듷듸듹듺듻듼듽듾듿",
    "떀떁떂떃떄떅떆떇떈떉떊떋떌떍떎떏떐떑떒떓떔떕떖떗떘떙떚떛떜떝떞떟떠떡떢떣떤떥떦떧떨떩떪떫떬떭떮떯떰떱떲떳떴떵떶떷떸떹떺떻떼떽떾떿뗀뗁뗂뗃뗄뗅뗆뗇뗈뗉뗊뗋뗌뗍뗎뗏뗐뗑뗒뗓뗔뗕뗖뗗뗘뗙뗚뗛뗜뗝뗞뗟뗠뗡뗢뗣뗤뗥뗦뗧뗨뗩뗪뗫뗬뗭뗮뗯뗰뗱뗲뗳뗴뗵뗶뗷뗸뗹뗺뗻뗼뗽뗾뗿",
    "뚀뚁뚂뚃뚄뚅뚆뚇뚈뚉뚊뚋뚌뚍뚎뚏뚐뚑뚒뚓뚔뚕뚖뚗뚘뚙뚚뚛뚜뚝뚞뚟뚠뚡뚢뚣뚤뚥뚦뚧뚨뚩뚪뚫뚬뚭뚮뚯뚰뚱뚲뚳뚴뚵뚶뚷뚸뚹뚺뚻뚼뚽뚾뚿뛀뛁뛂뛃뛄뛅뛆뛇뛈뛉뛊뛋뛌뛍뛎뛏뛐뛑뛒뛓뛔뛕뛖뛗뛘뛙뛚뛛뛜뛝뛞뛟뛠뛡뛢뛣뛤뛥뛦뛧뛨뛩뛪뛫뛬뛭뛮뛯뛰뛱뛲뛳뛴뛵뛶뛷뛸뛹뛺뛻뛼뛽뛾뛿",
    "란랁랂랃랄랅랆랇랈랉랊랋람랍랎랏랐랑랒랓랔랕랖랗래랙랚랛랜랝랞랟랠랡랢랣랤랥랦랧램랩랪랫랬랭랮랯랰랱랲랳랴략랶랷랸랹랺랻랼랽랾랿럀럁럂럃럄럅럆럇럈량럊럋럌럍럎럏럐럑럒럓럔럕럖럗럘럙럚럛럜럝럞럟럠럡럢럣럤럥럦럧럨럩럪럫러럭럮럯런럱럲럳럴럵럶럷럸럹럺럻럼럽럾럿",
    "뢀뢁뢂뢃뢄뢅뢆뢇뢈뢉뢊뢋뢌뢍뢎뢏뢐뢑뢒뢓뢔뢕뢖뢗뢘뢙뢚뢛뢜뢝뢞뢟뢠뢡뢢뢣뢤뢥뢦뢧뢨뢩뢪뢫뢬뢭뢮뢯뢰뢱뢲뢳뢴뢵뢶뢷뢸뢹뢺뢻뢼뢽뢾뢿룀룁룂룃룄룅룆룇룈룉룊룋료룍룎룏룐룑룒룓룔룕룖룗룘룙룚룛룜룝룞룟룠룡룢룣룤룥룦룧루룩룪룫룬룭룮룯룰룱룲룳룴룵룶룷룸룹룺룻룼룽룾룿",
    "릀릁릂릃름릅릆릇릈릉릊릋릌릍릎릏릐릑릒릓릔릕릖릗릘릙릚릛릜릝릞릟릠릡릢릣릤릥릦릧릨릩릪릫리릭릮릯린릱릲릳릴릵릶릷릸릹릺릻림립릾릿맀링맂맃맄맅맆맇마막맊맋만맍많맏말맑맒맓맔맕맖맗맘맙맚맛맜망맞맟맠맡맢맣매맥맦맧맨맩맪맫맬맭맮맯맰맱맲맳맴맵맶맷맸맹맺맻맼맽맾맿",
    "몀몁몂몃몄명몆몇몈몉몊몋몌몍몎몏몐몑몒몓몔몕몖몗몘몙몚몛몜몝몞몟몠몡몢몣몤몥몦몧모목몪몫몬몭몮몯몰몱몲몳몴몵몶몷몸몹몺못몼몽몾몿뫀뫁뫂뫃뫄뫅뫆뫇뫈뫉뫊뫋뫌뫍뫎뫏뫐뫑뫒뫓뫔뫕뫖뫗뫘뫙뫚뫛뫜뫝뫞뫟뫠뫡뫢뫣뫤뫥뫦뫧뫨뫩뫪뫫뫬뫭뫮뫯뫰뫱뫲뫳뫴뫵뫶뫷뫸뫹뫺뫻뫼뫽뫾뫿",
    "뮀뮁뮂뮃뮄뮅뮆뮇뮈뮉뮊뮋뮌뮍뮎뮏뮐뮑뮒뮓뮔뮕뮖뮗뮘뮙뮚뮛뮜뮝뮞뮟뮠뮡뮢뮣뮤뮥뮦뮧뮨뮩뮪뮫뮬뮭뮮뮯뮰뮱뮲뮳뮴뮵뮶뮷뮸뮹뮺뮻뮼뮽뮾뮿므믁믂믃믄믅믆믇믈믉믊믋믌믍믎믏믐믑믒믓믔믕믖믗믘믙믚믛믜믝믞믟믠믡믢믣믤믥믦믧믨믩믪믫믬믭믮믯믰믱믲믳믴믵믶믷미믹믺믻민믽믾믿",
    "벀벁벂벃버벅벆벇번벉벊벋벌벍벎벏벐벑벒벓범법벖벗벘벙벚벛벜벝벞벟베벡벢벣벤벥벦벧벨벩벪벫벬벭벮벯벰벱벲벳벴벵벶벷벸벹벺벻벼벽벾벿변볁볂볃별볅볆볇볈볉볊볋볌볍볎볏볐병볒볓볔볕볖볗볘볙볚볛볜볝볞볟볠볡볢볣볤볥볦볧볨볩볪볫볬볭볮볯볰볱볲볳보복볶볷본볹볺볻볼볽볾볿",
    "부북붂붃분붅붆붇불붉붊붋붌붍붎붏붐붑붒붓붔붕붖붗붘붙붚붛붜붝붞붟붠붡붢붣붤붥붦붧붨붩붪붫붬붭붮붯붰붱붲붳붴붵붶붷붸붹붺붻붼붽붾붿뷀뷁뷂뷃뷄뷅뷆뷇뷈뷉뷊뷋뷌뷍뷎뷏뷐뷑뷒뷓뷔뷕뷖뷗뷘뷙뷚뷛뷜뷝뷞뷟뷠뷡뷢뷣뷤뷥뷦뷧뷨뷩뷪뷫뷬뷭뷮뷯뷰뷱뷲뷳뷴뷵뷶뷷뷸뷹뷺뷻뷼뷽뷾뷿",
    "뺀뺁뺂뺃뺄뺅뺆뺇뺈뺉뺊뺋뺌뺍뺎뺏뺐뺑뺒뺓뺔뺕뺖뺗뺘뺙뺚뺛뺜뺝뺞뺟뺠뺡뺢뺣뺤뺥뺦뺧뺨뺩뺪뺫뺬뺭뺮뺯뺰뺱뺲뺳뺴뺵뺶뺷뺸뺹뺺뺻뺼뺽뺾뺿뻀뻁뻂뻃뻄뻅뻆뻇뻈뻉뻊뻋뻌뻍뻎뻏뻐뻑뻒뻓뻔뻕뻖뻗뻘뻙뻚뻛뻜뻝뻞뻟뻠뻡뻢뻣뻤뻥뻦뻧뻨뻩뻪뻫뻬뻭뻮뻯뻰뻱뻲뻳뻴뻵뻶뻷뻸뻹뻺뻻뻼뻽뻾뻿",
    "뾀뾁뾂뾃뾄뾅뾆뾇뾈뾉뾊뾋뾌뾍뾎뾏뾐뾑뾒뾓뾔뾕뾖뾗뾘뾙뾚뾛뾜뾝뾞뾟뾠뾡뾢뾣뾤뾥뾦뾧뾨뾩뾪뾫뾬뾭뾮뾯뾰뾱뾲뾳뾴뾵뾶뾷뾸뾹뾺뾻뾼뾽뾾뾿뿀뿁뿂뿃뿄뿅뿆뿇뿈뿉뿊뿋뿌뿍뿎뿏뿐뿑뿒뿓뿔뿕뿖뿗뿘뿙뿚뿛뿜뿝뿞뿟뿠뿡뿢뿣뿤뿥뿦뿧뿨뿩뿪뿫뿬뿭뿮뿯뿰뿱뿲뿳뿴뿵뿶뿷뿸뿹뿺뿻뿼뿽뿾뿿",
    "삀삁삂삃삄삅삆삇삈삉삊삋삌삍삎삏삐삑삒삓삔삕삖삗삘삙삚삛삜삝삞삟삠삡삢삣삤삥삦삧삨삩삪삫사삭삮삯산삱삲삳살삵삶삷삸삹삺삻삼삽삾삿샀상샂샃샄샅샆샇새색샊샋샌샍샎샏샐샑샒샓샔샕샖샗샘샙샚샛샜생샞샟샠샡샢샣샤샥샦샧샨샩샪샫샬샭샮샯샰샱샲샳샴샵샶샷샸샹샺샻샼샽샾샿",
    "솀솁솂솃솄솅솆솇솈솉솊솋소속솎솏손솑솒솓솔솕솖솗솘솙솚솛솜솝솞솟솠송솢솣솤솥솦솧솨솩솪솫솬솭솮솯솰솱솲솳솴솵솶솷솸솹솺솻솼솽솾솿쇀쇁쇂쇃쇄쇅쇆쇇쇈쇉쇊쇋쇌쇍쇎쇏쇐쇑쇒쇓쇔쇕쇖쇗쇘쇙쇚쇛쇜쇝쇞쇟쇠쇡쇢쇣쇤쇥쇦쇧쇨쇩쇪쇫쇬쇭쇮쇯쇰쇱쇲쇳쇴쇵쇶쇷쇸쇹쇺쇻쇼쇽쇾쇿",
    "슀슁슂슃슄슅슆슇슈슉슊슋슌슍슎슏슐슑슒슓슔슕슖슗슘슙슚슛슜슝슞슟슠슡슢슣스슥슦슧슨슩슪슫슬슭슮슯슰슱슲슳슴습슶슷슸승슺슻슼슽슾슿싀싁싂싃싄싅싆싇싈싉싊싋싌싍싎싏싐싑싒싓싔싕싖싗싘싙싚싛시식싞싟신싡싢싣실싥싦싧싨싩싪싫심십싮싯싰싱싲싳싴싵싶싷싸싹싺싻싼싽싾싿",
    "쎀쎁쎂쎃쎄쎅쎆쎇쎈쎉쎊쎋쎌쎍쎎쎏쎐쎑쎒쎓쎔쎕쎖쎗쎘쎙쎚쎛쎜쎝쎞쎟쎠쎡쎢쎣쎤쎥쎦쎧쎨쎩쎪쎫쎬쎭쎮쎯쎰쎱쎲쎳쎴쎵쎶쎷쎸쎹쎺쎻쎼쎽쎾쎿쏀쏁쏂쏃쏄쏅쏆쏇쏈쏉쏊쏋쏌쏍쏎쏏쏐쏑쏒쏓쏔쏕쏖쏗쏘쏙쏚쏛쏜쏝쏞쏟쏠쏡쏢쏣쏤쏥쏦쏧쏨쏩쏪쏫쏬쏭쏮쏯쏰쏱쏲쏳쏴쏵쏶쏷쏸쏹쏺쏻쏼쏽쏾쏿",
    "쒀쒁쒂쒃쒄쒅쒆쒇쒈쒉쒊쒋쒌쒍쒎쒏쒐쒑쒒쒓쒔쒕쒖쒗쒘쒙쒚쒛쒜쒝쒞쒟쒠쒡쒢쒣쒤쒥쒦쒧쒨쒩쒪쒫쒬쒭쒮쒯쒰쒱쒲쒳쒴쒵쒶쒷쒸쒹쒺쒻쒼쒽쒾쒿쓀쓁쓂쓃쓄쓅쓆쓇쓈쓉쓊쓋쓌쓍쓎쓏쓐쓑쓒쓓쓔쓕쓖쓗쓘쓙쓚쓛쓜쓝쓞쓟쓠쓡쓢쓣쓤쓥쓦쓧쓨쓩쓪쓫쓬쓭쓮쓯쓰쓱쓲쓳쓴쓵쓶쓷쓸쓹쓺쓻쓼쓽쓾쓿",
    "얀얁얂얃얄얅얆얇얈얉얊얋얌얍얎얏얐양얒얓얔얕얖얗얘얙얚얛얜얝얞얟얠얡얢얣얤얥얦얧얨얩얪얫얬얭얮얯얰얱얲얳어억얶얷언얹얺얻얼얽얾얿엀엁엂엃엄업없엇었엉엊엋엌엍엎엏에엑엒엓엔엕엖엗엘엙엚엛엜엝엞엟엠엡엢엣엤엥엦엧엨엩엪엫여역엮엯연엱엲엳열엵엶엷엸엹엺엻염엽엾엿",
    "욀욁욂욃욄욅욆욇욈욉욊욋욌욍욎욏욐욑욒욓요욕욖욗욘욙욚욛욜욝욞욟욠욡욢욣욤욥욦욧욨용욪욫욬욭욮욯우욱욲욳운욵욶욷울욹욺욻욼욽욾욿움웁웂웃웄웅웆웇웈웉웊웋워웍웎웏원웑웒웓월웕웖웗웘웙웚웛웜웝웞웟웠웡웢웣웤웥웦웧웨웩웪웫웬웭웮웯웰웱웲웳웴웵웶웷웸웹웺웻웼웽웾웿",
    "잀잁잂잃임입잆잇있잉잊잋잌잍잎잏자작잒잓잔잕잖잗잘잙잚잛잜잝잞잟잠잡잢잣잤장잦잧잨잩잪잫재잭잮잯잰잱잲잳잴잵잶잷잸잹잺잻잼잽잾잿쟀쟁쟂쟃쟄쟅쟆쟇쟈쟉쟊쟋쟌쟍쟎쟏쟐쟑쟒쟓쟔쟕쟖쟗쟘쟙쟚쟛쟜쟝쟞쟟쟠쟡쟢쟣쟤쟥쟦쟧쟨쟩쟪쟫쟬쟭쟮쟯쟰쟱쟲쟳쟴쟵쟶쟷쟸쟹쟺쟻쟼쟽쟾쟿",
    "좀좁좂좃좄종좆좇좈좉좊좋좌좍좎좏좐좑좒좓좔좕좖좗좘좙좚좛좜좝좞좟좠좡좢좣좤좥좦좧좨좩좪좫좬좭좮좯좰좱좲좳좴좵좶좷좸좹좺좻좼좽좾좿죀죁죂죃죄죅죆죇죈죉죊죋죌죍죎죏죐죑죒죓죔죕죖죗죘죙죚죛죜죝죞죟죠죡죢죣죤죥죦죧죨죩죪죫죬죭죮죯죰죱죲죳죴죵죶죷죸죹죺죻주죽죾죿",
    "즀즁즂즃즄즅즆즇즈즉즊즋즌즍즎즏즐즑즒즓즔즕즖즗즘즙즚즛즜증즞즟즠즡즢즣즤즥즦즧즨즩즪즫즬즭즮즯즰즱즲즳즴즵즶즷즸즹즺즻즼즽즾즿지직짂짃진짅짆짇질짉짊짋짌짍짎짏짐집짒짓짔징짖짗짘짙짚짛짜짝짞짟짠짡짢짣짤짥짦짧짨짩짪짫짬짭짮짯짰짱짲짳짴짵짶짷째짹짺짻짼짽짾짿",
    "쪀쪁쪂쪃쪄쪅쪆쪇쪈쪉쪊쪋쪌쪍쪎쪏쪐쪑쪒쪓쪔쪕쪖쪗쪘쪙쪚쪛쪜쪝쪞쪟쪠쪡쪢쪣쪤쪥쪦쪧쪨쪩쪪쪫쪬쪭쪮쪯쪰쪱쪲쪳쪴쪵쪶쪷쪸쪹쪺쪻쪼쪽쪾쪿쫀쫁쫂쫃쫄쫅쫆쫇쫈쫉쫊쫋쫌쫍쫎쫏쫐쫑쫒쫓쫔쫕쫖쫗쫘쫙쫚쫛쫜쫝쫞쫟쫠쫡쫢쫣쫤쫥쫦쫧쫨쫩쫪쫫쫬쫭쫮쫯쫰쫱쫲쫳쫴쫵쫶쫷쫸쫹쫺쫻쫼쫽쫾쫿",
    "쮀쮁쮂쮃쮄쮅쮆쮇쮈쮉쮊쮋쮌쮍쮎쮏쮐쮑쮒쮓쮔쮕쮖쮗쮘쮙쮚쮛쮜쮝쮞쮟쮠쮡쮢쮣쮤쮥쮦쮧쮨쮩쮪쮫쮬쮭쮮쮯쮰쮱쮲쮳쮴쮵쮶쮷쮸쮹쮺쮻쮼쮽쮾쮿쯀쯁쯂쯃쯄쯅쯆쯇쯈쯉쯊쯋쯌쯍쯎쯏쯐쯑쯒쯓쯔쯕쯖쯗쯘쯙쯚쯛쯜쯝쯞쯟쯠쯡쯢쯣쯤쯥쯦쯧쯨쯩쯪쯫쯬쯭쯮쯯쯰쯱쯲쯳쯴쯵쯶쯷쯸쯹쯺쯻쯼쯽쯾쯿",
    "첀첁첂첃첄첅첆첇첈첉첊첋첌첍첎첏첐첑첒첓첔첕첖첗처척첚첛천첝첞첟철첡첢첣첤첥첦첧첨첩첪첫첬청첮첯첰첱첲첳체첵첶첷첸첹첺첻첼첽첾첿쳀쳁쳂쳃쳄쳅쳆쳇쳈쳉쳊쳋쳌쳍쳎쳏쳐쳑쳒쳓쳔쳕쳖쳗쳘쳙쳚쳛쳜쳝쳞쳟쳠쳡쳢쳣쳤쳥쳦쳧쳨쳩쳪쳫쳬쳭쳮쳯쳰쳱쳲쳳쳴쳵쳶쳷쳸쳹쳺쳻쳼쳽쳾쳿",
    "춀춁춂춃춄춅춆춇춈춉춊춋춌춍춎춏춐춑춒춓추축춖춗춘춙춚춛출춝춞춟춠춡춢춣춤춥춦춧춨충춪춫춬춭춮춯춰춱춲춳춴춵춶춷춸춹춺춻춼춽춾춿췀췁췂췃췄췅췆췇췈췉췊췋췌췍췎췏췐췑췒췓췔췕췖췗췘췙췚췛췜췝췞췟췠췡췢췣췤췥췦췧취췩췪췫췬췭췮췯췰췱췲췳췴췵췶췷췸췹췺췻췼췽췾췿",
    "캀캁캂캃캄캅캆캇캈캉캊캋캌캍캎캏캐캑캒캓캔캕캖캗캘캙캚캛캜캝캞캟캠캡캢캣캤캥캦캧캨캩캪캫캬캭캮캯캰캱캲캳캴캵캶캷캸캹캺캻캼캽캾캿컀컁컂컃컄컅컆컇컈컉컊컋컌컍컎컏컐컑컒컓컔컕컖컗컘컙컚컛컜컝컞컟컠컡컢컣커컥컦컧컨컩컪컫컬컭컮컯컰컱컲컳컴컵컶컷컸컹컺컻컼컽컾컿",
    "쾀쾁쾂쾃쾄쾅쾆쾇쾈쾉쾊쾋쾌쾍쾎쾏쾐쾑쾒쾓쾔쾕쾖쾗쾘쾙쾚쾛쾜쾝쾞쾟쾠쾡쾢쾣쾤쾥쾦쾧쾨쾩쾪쾫쾬쾭쾮쾯쾰쾱쾲쾳쾴쾵쾶쾷쾸쾹쾺쾻쾼쾽쾾쾿쿀쿁쿂쿃쿄쿅쿆쿇쿈쿉쿊쿋쿌쿍쿎쿏쿐쿑쿒쿓쿔쿕쿖쿗쿘쿙쿚쿛쿜쿝쿞쿟쿠쿡쿢쿣쿤쿥쿦쿧쿨쿩쿪쿫쿬쿭쿮쿯쿰쿱쿲쿳쿴쿵쿶쿷쿸쿹쿺쿻쿼쿽쿾쿿",
    "킀킁킂킃킄킅킆킇킈킉킊킋킌킍킎킏킐킑킒킓킔킕킖킗킘킙킚킛킜킝킞킟킠킡킢킣키킥킦킧킨킩킪킫킬킭킮킯킰킱킲킳킴킵킶킷킸킹킺킻킼킽킾킿타탁탂탃탄탅탆탇탈탉탊탋탌탍탎탏탐탑탒탓탔탕탖탗탘탙탚탛태택탞탟탠탡탢탣탤탥탦탧탨탩탪탫탬탭탮탯탰탱탲탳탴탵탶탷탸탹탺탻탼탽탾탿",
    "톀톁톂톃톄톅톆톇톈톉톊톋톌톍톎톏톐톑톒톓톔톕톖톗톘톙톚톛톜톝톞톟토톡톢톣톤톥톦톧톨톩톪톫톬톭톮톯톰톱톲톳톴통톶톷톸톹톺톻톼톽톾톿퇀퇁퇂퇃퇄퇅퇆퇇퇈퇉퇊퇋퇌퇍퇎퇏퇐퇑퇒퇓퇔퇕퇖퇗퇘퇙퇚퇛퇜퇝퇞퇟퇠퇡퇢퇣퇤퇥퇦퇧퇨퇩퇪퇫퇬퇭퇮퇯퇰퇱퇲퇳퇴퇵퇶퇷퇸퇹퇺퇻퇼퇽퇾퇿",
    "튀튁튂튃튄튅튆튇튈튉튊튋튌튍튎튏튐튑튒튓튔튕튖튗튘튙튚튛튜튝튞튟튠튡튢튣튤튥튦튧튨튩튪튫튬튭튮튯튰튱튲튳튴튵튶튷트특튺튻튼튽튾튿틀틁틂틃틄틅틆틇틈틉틊틋틌틍틎틏틐틑틒틓틔틕틖틗틘틙틚틛틜틝틞틟틠틡틢틣틤틥틦틧틨틩틪틫틬틭틮틯티틱틲틳틴틵틶틷틸틹틺틻틼틽틾틿",
    "펀펁펂펃펄펅펆펇펈펉펊펋펌펍펎펏펐펑펒펓펔펕펖펗페펙펚펛펜펝펞펟펠펡펢펣펤펥펦펧펨펩펪펫펬펭펮펯펰펱펲펳펴펵펶펷편펹펺펻펼펽펾펿폀폁폂폃폄폅폆폇폈평폊폋폌폍폎폏폐폑폒폓폔폕폖폗폘폙폚폛폜폝폞폟폠폡폢폣폤폥폦폧폨폩폪폫포폭폮폯폰폱폲폳폴폵폶폷폸폹폺폻폼폽폾폿",
    "풀풁풂풃풄풅풆풇품풉풊풋풌풍풎풏풐풑풒풓풔풕풖풗풘풙풚풛풜풝풞풟풠풡풢풣풤풥풦풧풨풩풪풫풬풭풮풯풰풱풲풳풴풵풶풷풸풹풺풻풼풽풾풿퓀퓁퓂퓃퓄퓅퓆퓇퓈퓉퓊퓋퓌퓍퓎퓏퓐퓑퓒퓓퓔퓕퓖퓗퓘퓙퓚퓛퓜퓝퓞퓟퓠퓡퓢퓣퓤퓥퓦퓧퓨퓩퓪퓫퓬퓭퓮퓯퓰퓱퓲퓳퓴퓵퓶퓷퓸퓹퓺퓻퓼퓽퓾퓿",
    "햀햁햂햃햄햅햆햇했행햊햋햌햍햎햏햐햑햒햓햔햕햖햗햘햙햚햛햜햝햞햟햠햡햢햣햤향햦햧햨햩햪햫햬햭햮햯햰햱햲햳햴햵햶햷햸햹햺햻햼햽햾햿헀헁헂헃헄헅헆헇허헉헊헋헌헍헎헏헐헑헒헓헔헕헖헗험헙헚헛헜헝헞헟헠헡헢헣헤헥헦헧헨헩헪헫헬헭헮헯헰헱헲헳헴헵헶헷헸헹헺헻헼헽헾헿",
    "횀횁횂횃횄횅횆횇횈횉횊횋회획횎횏횐횑횒횓횔횕횖횗횘횙횚횛횜횝횞횟횠횡횢횣횤횥횦횧효횩횪횫횬횭횮횯횰횱횲횳횴횵횶횷횸횹횺횻횼횽횾횿훀훁훂훃후훅훆훇훈훉훊훋훌훍훎훏훐훑훒훓훔훕훖훗훘훙훚훛훜훝훞훟훠훡훢훣훤훥훦훧훨훩훪훫훬훭훮훯훰훱훲훳훴훵훶훷훸훹훺훻훼훽훾훿",
    "힀힁힂힃힄힅힆힇히힉힊힋힌힍힎힏힐힑힒힓힔힕힖힗힘힙힚힛힜힝힞힟힠힡힢힣힤힥힦힧힨힩힪힫힬힭힮힯ힰힱힲힳힴힵힶힷힸힹힺힻힼힽힾힿퟀퟁퟂퟃퟄퟅퟆ퟇퟈퟉퟊ퟋퟌퟍퟎퟏퟐퟑퟒퟓퟔퟕퟖퟗퟘퟙퟚퟛퟜퟝퟞퟟퟠퟡퟢퟣퟤퟥퟦퟧퟨퟩퟪퟫퟬퟭퟮퟯퟰퟱퟲퟳퟴퟵퟶퟷퟸퟹퟺퟻ퟼퟽퟾퟿",
    "",
    "",
    "",
    "",
    "",
    "",
    "",
    "",
    "",
    "",
    "",
    "",
    "",
    "",
    "",
    "",
    "",
    "",
    "",
    "",
    "",
    "",
    "",
    "",
    "",
    "",
    "",
    "",
    "",
    "",
    "",
    "",
    "",
    "呂女廬旅濾礪閭驪麗黎力曆歷轢年憐戀撚漣煉璉秊練聯輦蓮連鍊列劣咽烈裂說廉念捻殮簾獵令囹寧嶺怜玲瑩羚聆鈴零靈領例禮醴隸惡了僚寮尿料樂燎療蓼遼龍暈阮劉杻柳流溜琉留硫紐類六戮陸倫崙淪輪律慄栗率隆利吏履易李梨泥理痢罹裏裡里離匿溺吝燐璘藺隣鱗麟林淋臨立笠粒狀炙識什茶刺",
    "婢嬨廒廙彩徭惘慎愈憎慠懲戴揄搜摒敖晴朗望杖歹殺流滛滋漢瀞煮瞧爵犯猪瑱甆画瘝瘟益盛直睊着磌窱節类絛練缾者荒華蝹襁覆視調諸請謁諾諭謹變贈輸遲醙鉶陼難靖韛響頋頻鬒龜𢡊𢡄𣏕㮝䀘䀹𥉉𥳐𧻓齃龎﫚﫛﫜﫝﫞﫟﫠﫡﫢﫣﫤﫥﫦﫧﫨﫩﫪﫫﫬﫭﫮﫯﫰﫱﫲﫳﫴﫵﫶﫷﫸﫹﫺﫻﫼﫽﫾﫿",
    "ﮀﮁﮂﮃﮄﮅﮆﮇﮈﮉﮊﮋﮌﮍﮎﮏﮐﮑﮒﮓﮔﮕﮖﮗﮘﮙﮚﮛﮜﮝﮞﮟﮠﮡﮢﮣﮤﮥﮦﮧﮨﮩﮪﮫﮬﮭﮮﮯﮰﮱ﮲﮳﮴﮵﮶﮷﮸﮹﮺﮻﮼﮽﮾﮿﯀﯁﯂﯃﯄﯅﯆﯇﯈﯉﯊﯋﯌﯍﯎﯏﯐﯑﯒ﯓﯔﯕﯖﯗﯘﯙﯚﯛﯜﯝﯞﯟﯠﯡﯢﯣﯤﯥﯦﯧﯨﯩﯪﯫﯬﯭﯮﯯﯰﯱﯲﯳﯴﯵﯶﯷﯸﯹﯺﯻﯼﯽﯾﯿ",
    "ﲀﲁﲂﲃﲄﲅﲆﲇﲈﲉﲊﲋﲌﲍﲎﲏﲐﲑﲒﲓﲔﲕﲖﲗﲘﲙﲚﲛﲜﲝﲞﲟﲠﲡﲢﲣﲤﲥﲦﲧﲨﲩﲪﲫﲬﲭﲮﲯﲰﲱﲲﲳﲴﲵﲶﲷﲸﲹﲺﲻﲼﲽﲾﲿﳀﳁﳂﳃﳄﳅﳆﳇﳈﳉﳊﳋﳌﳍﳎﳏﳐﳑﳒﳓﳔﳕﳖﳗﳘﳙﳚﳛﳜﳝﳞﳟﳠﳡﳢﳣﳤﳥﳦﳧﳨﳩﳪﳫﳬﳭﳮﳯﳰﳱﳲﳳﳴﳵﳶﳷﳸﳹﳺﳻﳼﳽﳾﳿ",
    "ﶀﶁﶂﶃﶄﶅﶆﶇﶈﶉﶊﶋﶌﶍﶎﶏ﶐﶑ﶒﶓﶔﶕﶖﶗﶘﶙﶚﶛﶜﶝﶞﶟﶠﶡﶢﶣﶤﶥﶦﶧﶨﶩﶪﶫﶬﶭﶮﶯﶰﶱﶲﶳﶴﶵﶶﶷﶸﶹﶺﶻﶼﶽﶾﶿﷀﷁﷂﷃﷄﷅﷆﷇ﷈﷉﷊﷋﷌﷍﷎﷏﷐﷑﷒﷓﷔﷕﷖﷗﷘﷙﷚﷛﷜﷝﷞﷟﷠﷡﷢﷣﷤﷥﷦﷧﷨﷩﷪﷫﷬﷭﷮﷯ﷰﷱﷲﷳﷴﷵﷶﷷﷸﷹﷺﷻ﷼﷽﷾﷿",
    "ﺀﺁﺂﺃﺄﺅﺆﺇﺈﺉﺊﺋﺌﺍﺎﺏﺐﺑﺒﺓﺔﺕﺖﺗﺘﺙﺚﺛﺜﺝﺞﺟﺠﺡﺢﺣﺤﺥﺦﺧﺨﺩﺪﺫﺬﺭﺮﺯﺰﺱﺲﺳﺴﺵﺶﺷﺸﺹﺺﺻﺼﺽﺾﺿﻀﻁﻂﻃﻄﻅﻆﻇﻈﻉﻊﻋﻌﻍﻎﻏﻐﻑﻒﻓﻔﻕﻖﻗﻘﻙﻚﻛﻜﻝﻞﻟﻠﻡﻢﻣﻤﻥﻦﻧﻨﻩﻪﻫﻬﻭﻮﻯﻰﻱﻲﻳﻴﻵﻶﻷﻸﻹﻺﻻﻼ﻽﻾﻿",
    "ﾀﾁﾂﾃﾄﾅﾆﾇﾈﾉﾊﾋﾌﾍﾎﾏﾐﾑﾒﾓﾔﾕﾖﾗﾘﾙﾚﾛﾜﾝﾞﾟﾠﾡﾢﾣﾤﾥﾦﾧﾨﾩﾪﾫﾬﾭﾮﾯﾰﾱﾲﾳﾴﾵﾶﾷﾸﾹﾺﾻﾼﾽﾾ﾿￀￁ￂￃￄￅￆￇ￈￉ￊￋￌￍￎￏ￐￑ￒￓￔￕￖￗ￘￙ￚￛￜ￝￞￟￠￡￢￣￤￥￦￧￨￩￪￫￬￭￮￯￰￱￲￳￴￵￶￷￸￹￺￻￼�￾￿">>

\* Pairs[k] holds, for each l from 80 to FF, the surrogate U+D8l, U+D9l,
\* U+DAl or U+DBl (k = 1, 2, 3, 4) followed by the surrogate U+DCl, U+DDl,
\* U+DEl or U+DFl
Pairs == <<
    "𰂀𰒁𰢂𰲃𱂄𱒅𱢆𱲇𲂈𲒉𲢊𲲋𳂌𳒍𳢎𳲏𴂐𴒑𴢒𴲓𵂔𵒕𵢖𵲗𶂘𶒙𶢚𶲛𷂜𷒝𷢞𷲟𸂠𸒡𸢢𸲣𹂤𹒥𹢦𹲧𺂨𺒩𺢪𺲫𻂬𻒭𻢮𻲯𼂰𼒱𼢲𼲳𽂴𽒵𽢶𽲷𾂸𾒹𾢺𾲻𿂼𿒽𿢾𿲿񀃀񀓁񀣂񀳃񁃄񁓅񁣆񁳇񂃈񂓉񂣊񂳋񃃌񃓍񃣎񃳏񄃐񄓑񄣒񄳓񅃔񅓕񅣖񅳗񆃘񆓙񆣚񆳛񇃜񇓝񇣞񇳟񈃠񈓡񈣢񈳣񉃤񉓥񉣦񉳧񊃨񊓩񊣪񊳫񋃬񋓭񋣮񋳯񌃰񌓱񌣲񌳳񍃴񍓵񍣶񍳷񎃸񎓹񎣺񎳻񏃼񏓽񏣾񏳿",
    "񰆀񰖁񰦂񰶃񱆄񱖅񱦆񱶇񲆈񲖉񲦊񲶋񳆌񳖍񳦎񳶏񴆐񴖑񴦒񴶓񵆔񵖕񵦖񵶗񶆘񶖙񶦚񶶛񷆜񷖝񷦞񷶟񸆠񸖡񸦢񸶣񹆤񹖥񹦦񹶧񺆨񺖩񺦪񺶫񻆬񻖭񻦮񻶯񼆰񼖱񼦲񼶳񽆴񽖵񽦶񽶷񾆸񾖹񾦺񾶻񿆼񿖽񿦾񿶿򀇀򀗁򀧂򀷃򁇄򁗅򁧆򁷇򂇈򂗉򂧊򂷋򃇌򃗍򃧎򃷏򄇐򄗑򄧒򄷓򅇔򅗕򅧖򅷗򆇘򆗙򆧚򆷛򇇜򇗝򇧞򇷟򈇠򈗡򈧢򈷣򉇤򉗥򉧦򉷧򊇨򊗩򊧪򊷫򋇬򋗭򋧮򋷯򌇰򌗱򌧲򌷳򍇴򍗵򍧶򍷷򎇸򎗹򎧺򎷻򏇼򏗽򏧾򏷿",
    "򰊀򰚁򰪂򰺃򱊄򱚅򱪆򱺇򲊈򲚉򲪊򲺋򳊌򳚍򳪎򳺏򴊐򴚑򴪒򴺓򵊔򵚕򵪖򵺗򶊘򶚙򶪚򶺛򷊜򷚝򷪞򷺟򸊠򸚡򸪢򸺣򹊤򹚥򹪦򹺧򺊨򺚩򺪪򺺫򻊬򻚭򻪮򻺯򼊰򼚱򼪲򼺳򽊴򽚵򽪶򽺷򾊸򾚹򾪺򾺻򿊼򿚽򿪾򿺿󀋀󀛁󀫂󀻃󁋄󁛅󁫆󁻇󂋈󂛉󂫊󂻋󃋌󃛍󃫎󃻏󄋐󄛑󄫒󄻓󅋔󅛕󅫖󅻗󆋘󆛙󆫚󆻛󇋜󇛝󇫞󇻟󈋠󈛡󈫢󈻣󉋤󉛥󉫦󉻧󊋨󊛩󊫪󊻫󋋬󋛭󋫮󋻯󌋰󌛱󌫲󌻳󍋴󍛵󍫶󍻷󎋸󎛹󎫺󎻻󏋼󏛽󏫾󏻿",
    "󰎀󰞁󰮂󰾃󱎄󱞅󱮆󱾇󲎈󲞉󲮊󲾋󳎌󳞍󳮎󳾏󴎐󴞑󴮒󴾓󵎔󵞕󵮖󵾗󶎘󶞙󶮚󶾛󷎜󷞝󷮞󷾟󸎠󸞡󸮢󸾣󹎤󹞥󹮦󹾧󺎨󺞩󺮪󺾫󻎬󻞭󻮮󻾯󼎰󼞱󼮲󼾳󽎴󽞵󽮶󽾷󾎸󾞹󾮺󾾻󿎼󿞽󿮾󿾿􀏀􀟁􀯂􀿃􁏄􁟅􁯆􁿇􂏈􂟉􂯊􂿋􃏌􃟍􃯎􃿏􄏐􄟑􄯒􄿓􅏔􅟕􅯖􅿗􆏘􆟙􆯚􆿛􇏜􇟝􇯞􇿟􈏠􈟡􈯢􈿣􉏤􉟥􉯦􉿧􊏨􊟩􊯪􊿫􋏬􋟭􋯮􋿯􌏰􌟱􌯲􌿳􍏴􍟵􍯶􍿷􎏸􎟹􎯺􎿻􏏼􏟽􏯾􏿿">>

\* the hexadecimal digits, in either case, and what they count
HexName == "0123456789abcdef"
HexDigits == {At(HexName, v) : v \in 1..16} \cup {At("0123456789ABCDEF", v) : v \in 1..16}
HexValueOf ==
    [c \in HexDigits |->
        (CHOOSE v \in 1..16 : At(HexName, v) = c \/ At("0123456789ABCDEF", v) = c) - 1]
IsHex(c) == c \in HexDigits
HexValue(c) == HexValueOf[c]

\* the code unit v as a string value holds it
Unit(v) ==
    IF v >= 32 /\ v <= 126 /\ v \notin {92, 96} THEN At(Low, v)
    ELSE IF v >= 161 /\ v <= 255 THEN At(Low, v)
    ELSE IF v = 9200 THEN "⏰"
    ELSE Backslash \o "u" \o At(HexName, (v \div 4096) + 1)
             \o At(HexName, ((v \div 256) % 16) + 1)
             \o At(HexName, ((v \div 16) % 16) + 1) \o At(HexName, (v % 16) + 1)

\* the characters a string value holds as themselves
Verbatim ==
    {Unit(v) : v \in ((32..126) \ {92, 96}) \cup (161..255) \cup {9200}}

\* the characters of the tables, with their code units
LowUnits == {<<At(Low, v), v>> : v \in (1..255) \ {96}}
CodeUnits ==
    LowUnits
    \cup {<<At(High[h], l), 256 * h + 127 + l>> : h \in (1..255) \ (216..223), l \in 1..128}
    \cup {<<At(Pairs[k], 2 * l - 1), 256 * (215 + k) + 127 + l>> : k \in 1..4, l \in 1..128}
    \cup {<<At(Pairs[k], 2 * l), 256 * (219 + k) + 127 + l>> : k \in 1..4, l \in 1..128}

\* the code unit of the character c of a text: of the characters a text can
\* hold, U+0000 is the one the tables do not
CodeOf(c) ==
    LET low == {u \in LowUnits : u[1] = c}
        found == IF low # {} THEN low ELSE {u \in CodeUnits : u[1] = c}
    IN  IF found = {} THEN 0 ELSE (CHOOSE u \in found : TRUE)[2]

\* the character c of a text as a string value holds it
Written(c) == IF c \in Verbatim THEN c ELSE Unit(CodeOf(c))

\* event.data.text(): the text as a string value
Text(x) == Concat([i \in 1..Len(x) |-> Written(At(x, i))], 1, Len(x))

\* the code units of the string value s, one string each
UnitsOf(s) ==
    LET starts == {p \in 1..Len(s) : \A d \in 1..5 : At(s, p - d) # Backslash}
        index(p) == Cardinality({r \in starts : r < p})
    IN  [k \in {Decimal(index(p)) : p \in starts} |->
            LET p == CHOOSE r \in starts : Decimal(index(r)) = k
            IN  Str(SubSeq(s, p, IF At(s, p) = Backslash THEN p + 5 ELSE p))]

(* JSON.parse: the lexemes of a text *)

\* the characters of x in order, each a string, and "" for its end
Characters(x) == SubSeq([i \in 1..Len(x) |-> SubSeq(x, i, i)], 1, Len(x)) \o <<"">>

\* the number of backslashes right before position j of the characters c,
\* counted back to lo
BackslashesBefore(c, lo, j) ==
    j - (CHOOSE s \in lo..j :
            /\ \A k \in s..(j - 1) : c[k] = Backslash
            /\ s = lo \/ c[s - 1] # Backslash)

\* the position of the quote that closes a string whose characters start at
\* i (the first quote that no backslash escapes), 0 when the text ends first
StringEnd(c, i) ==
    LET Closing(j) == c[j] = Quote /\ BackslashesBefore(c, i, j) % 2 = 0
        e == CHOOSE j \in i..Len(c) :
                 /\ j = Len(c) \/ Closing(j)
                 /\ \A k \in i..(j - 1) : ~Closing(k)
    IN  IF e = Len(c) THEN 0 ELSE e

\* the position after the run of characters from i that are neither
\* whitespace, structural nor a quote
WordEnd(c, i) ==
    CHOOSE j \in i..Len(c) :
        /\ c[j] \in Delimiters \cup {""}
        /\ \A k \in i..(j - 1) : c[k] \notin Delimiters

\* the position of the first character from i on that is no whitespace
NonSpace(c, i) ==
    CHOOSE j \in i..Len(c) :
        /\ c[j] \notin Whitespace
        /\ \A k \in i..(j - 1) : c[k] \in Whitespace

\* JSON.parse reading the text x, of characters c, from position i: its
\* lexemes, whitespace skipped; a string that never closes runs to the end
\* of the text
RECURSIVE PushLexemes(_, _, _)
PushLexemes(x, c, i) ==
    LET j == NonSpace(c, i)
    IN  IF j > Len(x) THEN <<>>
        ELSE IF c[j] \in Structural THEN <<c[j]>> \o PushLexemes(x, c, j + 1)
        ELSE IF c[j] = Quote
        THEN LET e == StringEnd(c, j + 1)
             IN  IF e = 0 THEN <<SubSeq(x, j, Len(x))>>
                 ELSE <<SubSeq(x, j, e)>> \o PushLexemes(x, c, e + 1)
        ELSE LET e == WordEnd(c, j)
             IN  <<SubSeq(x, j, e - 1)>> \o PushLexemes(x, c, e)

(* JSON.parse: a string *)

\* the code unit an escape \c stands for
EscapeCode ==
    [c \in {Quote, Backslash, "/", "b", "f", "n", "r", "t"} |->
        CASE c = Quote -> 34 [] c = Backslash -> 92 [] c = "/" -> 47
          [] c = "b" -> 8 [] c = "f" -> 12 [] c = "n" -> 10
          [] c = "r" -> 13 [] c = "t" -> 9]

\* the characters a string lexeme holds for themselves, written as they are
PlainCharacters == Verbatim \ {Quote}
Plain(c) == c \in PlainCharacters

\* position p of the string lexeme of characters c holds a backslash that
\* starts an escape
Escaping(c, p) == c[p] = Backslash /\ BackslashesBefore(c, 2, p) % 2 = 0

\* position p of the string lexeme belongs to an escape started before it
Escaped(c, p) ==
    \/ p > 2 /\ Escaping(c, p - 1)
    \/ \E d \in 2..5 : p - d >= 2 /\ Escaping(c, p - d) /\ c[p - d + 1] = "u"

\* what starts at position p of the string lexeme is a character or an
\* escape JSON has: no quote, no character from U+0000 to U+001F, an escape
\* of EscapeCode, or \uXXXX with four hexadecimal digits
WellFormedAt(c, p) ==
    IF Plain(c[p]) THEN TRUE
    ELSE IF Escaped(c, p) THEN TRUE
    ELSE IF c[p] = Backslash
    THEN \/ p + 2 < Len(c) /\ c[p + 1] \in DOMAIN EscapeCode
         \/ /\ p + 6 < Len(c)
            /\ c[p + 1] = "u"
            /\ \A d \in 2..5 : IsHex(c[p + d])
    ELSE c[p] # Quote /\ CodeOf(c[p]) >= 32

\* the code units position p of the string lexeme stands for
UnitAt(c, p) ==
    IF Escaped(c, p) THEN ""
    ELSE IF c[p] # Backslash THEN Written(c[p])
    ELSE IF c[p + 1] = "u"
    THEN Unit(4096 * HexValue(c[p + 2]) + 256 * HexValue(c[p + 3])
                  + 16 * HexValue(c[p + 4]) + HexValue(c[p + 5]))
    ELSE Unit(EscapeCode[c[p + 1]])

\* the lexeme x read as a JSON string: [ok, val]; one of plain characters
\* only stands for the characters between its quotes
StringLexeme(x) ==
    LET c == Characters(x)
        n == Len(x)
    IN  IF n < 2 \/ c[1] # Quote \/ c[n] # Quote
        THEN [ok |-> FALSE, val |-> Lit("null")]
        ELSE IF \A p \in 2..(n - 1) : Plain(c[p])
        THEN [ok |-> TRUE, val |-> Str(SubSeq(x, 2, n - 1))]
        ELSE IF ~Escaped(c, n) /\ \A p \in 2..(n - 1) : WellFormedAt(c, p)
        THEN [ok |-> TRUE,
              val |-> Str(Concat([p \in 2..(n - 1) |-> UnitAt(c, p)], 2, n - 1))]
        ELSE [ok |-> FALSE, val |-> Lit("null")]

(* JSON.parse: a number.  Natural numbers of any size are sequences of     *)
(* limbs, base 10^4, the most significant first, none for 0.                *)

\* a without its leading zero limbs
BigTrim(a) ==
    LET nz == {i \in 1..Len(a) : a[i] # 0}
    IN  IF nz = {} THEN <<>>
        ELSE SubSeq(a, CHOOSE i \in nz : \A j \in nz : i <= j, Len(a))

\* a < b
BigLess(a, b) ==
    \/ Len(a) < Len(b)
    \/ /\ Len(a) = Len(b)
       /\ \E i \in 1..Len(a) : a[i] < b[i] /\ \A j \in 1..(i - 1) : a[j] = b[j]

\* a * c for a c that divides 10^4: the carry out of a limb is then that
\* of its own product
BigTimes(a, c) ==
    LET n == Len(a)
    IN  BigTrim(SubSeq([k \in 1..(n + 1) |->
                           (IF k > 1 THEN (c * a[k - 1]) % 10000 ELSE 0)
                               + (IF k <= n THEN (c * a[k]) \div 10000 ELSE 0)],
                       1, n + 1))

\* the limbs lo..hi of a - b, b given as long as a, once without and once
\* with a borrow taken from limb hi: <<without, with>>, each [d, o], o the
\* borrow it takes from limb lo - 1
RECURSIVE BigMinusIn(_, _, _, _)
BigMinusIn(a, b, lo, hi) ==
    IF lo = hi
    THEN LET One(x) == IF a[lo] - b[lo] - x >= 0
                       THEN [d |-> <<a[lo] - b[lo] - x>>, o |-> 0]
                       ELSE [d |-> <<a[lo] - b[lo] - x + 10000>>, o |-> 1]
         IN  <<One(0), One(1)>>
    ELSE LET low == BigMinusIn(a, b, ((lo + hi) \div 2) + 1, hi)
             high == BigMinusIn(a, b, lo, (lo + hi) \div 2)
             Both(x) == [d |-> high[low[x].o + 1].d \o low[x].d, o |-> high[low[x].o + 1].o]
         IN  <<Both(1), Both(2)>>

\* a - b, for a >= b
BigMinus(a, b) ==
    LET n == Len(a)
        padded == SubSeq([i \in 1..n |-> IF i > n - Len(b) THEN b[i - (n - Len(b))] ELSE 0],
                         1, n)
    IN  IF n = 0 THEN <<>> ELSE BigTrim(BigMinusIn(a, padded, 1, n)[1].d)

\* a + 1
BigPlusOne(a) ==
    LET low == {i \in 1..Len(a) : a[i] # 9999}
    IN  IF low = {} THEN <<1>> \o SubSeq([i \in 1..Len(a) |-> 0], 1, Len(a))
        ELSE LET j == CHOOSE i \in low : \A l \in low : l <= i
             IN  SubSeq([i \in 1..Len(a) |->
                            IF i < j THEN a[i] ELSE IF i = j THEN a[i] + 1 ELSE 0],
                        1, Len(a))

\* a * c^n, for a c that divides 10^4
RECURSIVE BigPower(_, _, _)
BigPower(a, c, n) ==
    IF n = 0 THEN a
    ELSE IF n = 1 THEN BigTimes(a, c)
    ELSE LET half == BigPower(a, c, n \div 2)
         IN  IF half = <<>> THEN <<>> ELSE BigPower(half, c, n - (n \div 2))

\* a * 2^n and a * 5^n
BigTimesPow2(a, n) == BigPower(BigPower(a, 16, n \div 4), 2, n % 4)
BigTimesPow5(a, n) == BigPower(BigPower(a, 625, n \div 4), 5, n % 4)

\* a * 10^n
BigTimesPow10(a, n) ==
    IF a = <<>> THEN <<>>
    ELSE BigTimes(a, CASE n % 4 = 0 -> 1 [] n % 4 = 1 -> 10 [] n % 4 = 2 -> 100
                       [] n % 4 = 3 -> 1000)
             \o SubSeq([i \in 1..(n \div 4) |-> 0], 1, n \div 4)

\* the natural number a numeral stands for
BigOf(ds) ==
    LET n == Len(ds)
        k == (n + 3) \div 4
    IN  BigTrim(SubSeq([j \in 1..k |->
                           LET hi == n - 4 * (k - j)
                           IN  DecimalValue(SubSeq(ds, IF hi > 4 THEN hi - 3 ELSE 1, hi))],
                       1, k))

\* s without the zeros it starts with, and without those it ends with
NoLeadingZeros(s) ==
    IF \A i \in 1..Len(s) : At(s, i) = "0" THEN ""
    ELSE SubSeq(s, CHOOSE i \in 1..Len(s) :
                       At(s, i) # "0" /\ \A k \in 1..(i - 1) : At(s, k) = "0", Len(s))
NoTrailingZeros(s) ==
    IF \A i \in 1..Len(s) : At(s, i) = "0" THEN ""
    ELSE SubSeq(s, 1, CHOOSE i \in 1..Len(s) :
                          At(s, i) # "0" /\ \A k \in (i + 1)..Len(s) : At(s, k) = "0")

\* the numeral of the natural number a
NumeralOf(a) ==
    NoLeadingZeros(Concat([i \in 1..Len(a) |->
                              DigitName[(a[i] \div 1000) + 1]
                                  \o DigitName[((a[i] \div 100) % 10) + 1]
                                  \o DigitName[((a[i] \div 10) % 10) + 1]
                                  \o DigitName[(a[i] % 10) + 1]],
                          1, Len(a)))

\* the number value of numeral * 10^e, numeral not "" and exactly a double
Exactly(neg, numeral, e) ==
    [num |-> (IF neg THEN "-" ELSE "") \o NoTrailingZeros(numeral),
     exp |-> e + Len(numeral) - Len(NoTrailingZeros(numeral))]
Zero(neg) == [num |-> IF neg THEN "-0" ELSE "0", exp |-> 0]
Infinity(neg) == [num |-> IF neg THEN "-Infinity" ELSE "Infinity", exp |-> 0]

\* the number value of the integer m * 10^e, for small m
Number(m, e) ==
    IF m = 0 THEN Zero(FALSE)
    ELSE Exactly(m < 0, Decimal(IF m < 0 THEN -m ELSE m), e)

\* k more binary digits of a quotient by m: s is [f, rem], f the digits so
\* far as a number and rem what is left to divide, below m
RECURSIVE BitsOf(_, _, _)
BitsOf(s, m, k) ==
    IF k = 0 THEN s
    ELSE IF k = 1
    THEN IF BigLess(BigTimes(s.rem, 2), m)
         THEN [f |-> BigTimes(s.f, 2), rem |-> BigTimes(s.rem, 2)]
         ELSE [f |-> BigPlusOne(BigTimes(s.f, 2)), rem |-> BigMinus(BigTimes(s.rem, 2), m)]
    ELSE LET half == BitsOf(s, m, k \div 2)
         IN  IF half.rem = <<>>
             THEN [f |-> BigTimesPow2(half.f, k - (k \div 2)), rem |-> <<>>]
             ELSE BitsOf(half, m, k - (k \div 2))

\* 2^53
TwoTo53 == <<9007, 1992, 5474, 992>>

\* a * 2^x for x > 0, else a
Up(a, x) == IF x > 0 THEN BigTimesPow2(a, x) ELSE a

\* the binary exponent of n / m: m * 2^e2 <= n < m * 2^(e2 + 1), sought
\* where 10^(d - 1) <= n / m < 10^d puts it
BinaryExponent(n, m, d) ==
    CHOOSE x \in ((((d - 1) * 3321) \div 1000) - 1)..(((d * 3322) \div 1000) + 1) :
        /\ ~BigLess(Up(n, -x), Up(m, x))
        /\ BigLess(Up(n, -(x + 1)), Up(m, x + 1))

\* the double of sign neg, binary exponent e2 and significand f * 2^q
DoubleValue(neg, e2, q, f) ==
    IF e2 > 1023 \/ (e2 = 1023 /\ f = TwoTo53) THEN Infinity(neg)
    ELSE IF f = <<>> THEN Zero(neg)
    ELSE IF q >= 0 THEN Exactly(neg, NumeralOf(BigTimesPow2(f, q)), 0)
    ELSE Exactly(neg, NumeralOf(BigTimesPow5(f, -q)), q)

\* the k binary digits s.f, with s.rem left of a division by sm, round up:
\* more than half a unit is left, or half of one and s.f is odd; with no
\* digit (k = 0), more than half the smallest double is there
RoundsUp(sm, k, s) ==
    IF k >= 1
    THEN \/ BigLess(sm, BigTimes(s.rem, 2))
         \/ BigTimes(s.rem, 2) = sm /\ s.f[Len(s.f)] % 2 = 1
    ELSE k = 0 /\ BigLess(sm, s.rem)

\* the double of n / m = sn / sm * 2^e2, sm <= sn < 2 * sm, with k binary
\* digits
Rounded(neg, e2, sn, sm, k, s) ==
    DoubleValue(neg, e2, IF k >= 1 THEN e2 - k + 1 ELSE -1074,
                IF RoundsUp(sm, k, s) THEN BigPlusOne(s.f) ELSE s.f)
Significand(neg, e2, sn, sm, k) ==
    Rounded(neg, e2, sn, sm, k,
            IF k >= 1 THEN BitsOf([f |-> <<1>>, rem |-> BigMinus(sn, sm)], sm, k - 1)
            ELSE [f |-> <<>>, rem |-> sn])

\* the double nearest to n / m, of binary exponent e2: 53 binary digits
\* from 2^-1022 up, those down to 2^-1074 below
Scaled(neg, n, m, e2) ==
    Significand(neg, e2, Up(n, -e2), Up(m, e2), IF e2 + 1075 > 53 THEN 53 ELSE e2 + 1075)

\* the double nearest to n / m (ties to the even significand), an infinity
\* from 2^1024 on
Quotient(neg, n, m, d) == Scaled(neg, n, m, BinaryExponent(n, m, d))

\* the double nearest to numeral * 10^e, for a numeral that starts with no 0
NearestDouble(neg, numeral, e) ==
    Quotient(neg, BigTimesPow10(BigOf(numeral), IF e > 0 THEN e ELSE 0),
             BigTimesPow10(<<1>>, IF e < 0 THEN -e ELSE 0), Len(numeral) + e)

\* the number value of digits * 10^e: 0 for digits that are all 0; itself
\* for an integer below 10^15, which is a double; an infinity from 10^310
\* on and 0 below 10^-325, which the nearest double is too; else the
\* nearest double
NumberValue(neg, digits, e) ==
    LET numeral == NoLeadingZeros(digits)
    IN  IF numeral = "" THEN Zero(neg)
        ELSE IF e >= 0 /\ Len(numeral) + e <= 15 THEN Exactly(neg, numeral, e)
        ELSE IF Len(numeral) + e > 310 THEN Infinity(neg)
        ELSE IF Len(numeral) + e < -325 THEN Zero(neg)
        ELSE NearestDouble(neg, numeral, e)

\* the lexeme x read as a JSON number: [ok, val]; an optional minus, an
\* integer part without a leading zero, an optional fraction, an optional
\* exponent (one of more than five digits counts as 99999)
NumberLexeme(x) ==
    LET n == Len(x)
        DigitsEnd(i) ==
            CHOOSE j \in i..(n + 1) :
                /\ \A k \in i..(j - 1) : At(x, k) \in Digits
                /\ At(x, j) \notin Digits
        neg == At(x, 1) = "-"
        s0 == IF neg THEN 2 ELSE 1
        ie == DigitsEnd(s0)
        hasFrac == At(x, ie) = "."
        fe == IF hasFrac THEN DigitsEnd(ie + 1) ELSE ie
        hasExp == At(x, fe) \in {"e", "E"}
        es == IF ~hasExp THEN fe
              ELSE IF At(x, fe + 1) \in {"+", "-"} THEN fe + 2 ELSE fe + 1
        ee == IF hasExp THEN DigitsEnd(es) ELSE fe
        ok == /\ n >= 1
              /\ ie > s0
              /\ At(x, s0) # "0" \/ ie = s0 + 1
              /\ hasFrac => fe > ie + 1
              /\ hasExp => ee > es
              /\ ee = n + 1
        digits == SubSeq(x, s0, ie - 1) \o (IF hasFrac THEN SubSeq(x, ie + 1, fe - 1) ELSE "")
        power == NoLeadingZeros(SubSeq(x, es, ee - 1))
        e == (IF hasExp
              THEN (IF At(x, fe + 1) = "-" THEN -1 ELSE 1)
                       * (IF Len(power) > 5 THEN 99999 ELSE DecimalValue(power))
              ELSE 0) - (IF hasFrac THEN fe - ie - 1 ELSE 0)
    IN  IF ok THEN [ok |-> TRUE, val |-> NumberValue(neg, digits, e)]
        ELSE [ok |-> FALSE, val |-> Lit("null")]

(* JSON.parse: a value *)

\* the i-th lexeme of t, none beyond its end
Lexeme(t, i) == IF i >= 1 /\ i <= Len(t) THEN t[i] ELSE ""

\* the string or number v read from the i-th lexeme: [ok, val, next]
Scalar(v, i) == [ok |-> v.ok, val |-> v.val, next |-> IF v.ok THEN i + 1 ELSE i]

\* JSON.parse reading one value from the i-th lexeme of t on:
\* [ok, val, next]; members of an object are read into acc, a member given
\* twice keeping its last value, elements of an array are appended to acc
RECURSIVE PushValue(_, _), PushMembers(_, _, _), PushElements(_, _, _)
PushValue(t, i) ==
    LET x == Lexeme(t, i)
    IN  IF x = "{"
        THEN IF Lexeme(t, i + 1) = "}"
             THEN [ok |-> TRUE, val |-> Obj(NoMembers), next |-> i + 2]
             ELSE PushMembers(t, i + 1, NoMembers)
        ELSE IF x = "["
        THEN IF Lexeme(t, i + 1) = "]"
             THEN [ok |-> TRUE, val |-> Arr(<<>>), next |-> i + 2]
             ELSE PushElements(t, i + 1, <<>>)
        ELSE IF x \in {"true", "false", "null"}
        THEN [ok |-> TRUE, val |-> Lit(x), next |-> i + 1]
        ELSE Scalar(IF At(x, 1) = Quote THEN StringLexeme(x) ELSE NumberLexeme(x), i)

PushMembers(t, i, acc) ==
    LET name == StringLexeme(Lexeme(t, i))
    IN  IF ~name.ok \/ Lexeme(t, i + 1) # ":"
        THEN [ok |-> FALSE, val |-> Lit("null"), next |-> i]
        ELSE LET v == PushValue(t, i + 2)
                 acc1 == Assign(acc, name.val.str, v.val)
             IN  IF ~v.ok THEN [ok |-> FALSE, val |-> Lit("null"), next |-> i]
                 ELSE IF Lexeme(t, v.next) = ","
                 THEN PushMembers(t, v.next + 1, acc1)
                 ELSE IF Lexeme(t, v.next) = "}"
                 THEN [ok |-> TRUE, val |-> Obj(acc1), next |-> v.next + 1]
                 ELSE [ok |-> FALSE, val |-> Lit("null"), next |-> i]

PushElements(t, i, acc) ==
    LET v == PushValue(t, i)
    IN  IF ~v.ok THEN [ok |-> FALSE, val |-> Lit("null"), next |-> i]
        ELSE IF Lexeme(t, v.next) = ","
        THEN PushElements(t, v.next + 1, Append(acc, v.val))
        ELSE IF Lexeme(t, v.next) = "]"
        THEN [ok |-> TRUE, val |-> Arr(Append(acc, v.val)), next |-> v.next + 1]
        ELSE [ok |-> FALSE, val |-> Lit("null"), next |-> i]

\* event.data.json(), JSON.parse of the text: [ok, val]; it returns for
\* every JSON text (an object, an array, a string, a number, true, false,
\* null) and throws on any other text, the empty one included
PushJson(text) ==
    LET t == PushLexemes(text, Characters(text), 1)
        r == PushValue(t, 1)
    IN  IF r.ok /\ r.next = Len(t) + 1 THEN [ok |-> TRUE, val |-> r.val]
        ELSE [ok |-> FALSE, val |-> Lit("null")]

\* the members '...v' spreads into an object: those of an object, the
\* elements of an array under their indices, the code units of a string
\* under their positions, none of a number, true, false or null
OwnMembers(v) ==
    IF "obj" \in DOMAIN v THEN v.obj
    ELSE IF "arr" \in DOMAIN v
    THEN [k \in {Decimal(i - 1) : i \in 1..Len(v.arr)} |->
             v.arr[CHOOSE i \in 1..Len(v.arr) : Decimal(i - 1) = k]]
    ELSE IF "str" \in DOMAIN v THEN UnitsOf(v.str)
    ELSE NoMembers

DefaultTitle == Str("⏰ Reminder")
DefaultBody == Str("Scheduled reminder from your Pi!")
DefaultVibrate == Arr(<<Number(200, 0), Number(100, 0), Number(200, 0)>>)
DefaultActions ==
    Arr(<<Obj([k \in {"action", "title"} |->
                  IF k = "action" THEN Str("open") ELSE Str("\\ud83d\\udcf1 Open App")]),
          Obj([k \in {"action", "title"} |->
                  IF k = "action" THEN Str("dismiss") ELSE Str("\\u2715 Dismiss")])>>)

\* let notificationData = { title: ..., ..., data: {...} }
DefaultNotificationData ==
    [k \in {"title", "body", "icon", "badge", "tag", "requireInteraction",
            "vibrate", "data"} |->
        CASE k = "title" -> DefaultTitle
          [] k = "body" -> DefaultBody
          [] k = "icon" -> Str("data:image/svg+xml,<svg icon>")
          [] k = "badge" -> Str("data:image/svg+xml,<svg badge>")
          [] k = "tag" -> Str("reminder-notification")
          [] k = "requireInteraction" -> Lit("true")
          [] k = "vibrate" -> DefaultVibrate
          [] k = "data" ->
                 Obj([j \in {"url", "timestamp", "source"} |->
                         CASE j = "url" -> Env("self.location.origin")
                           [] j = "timestamp" -> Env("Date.now()")
                           [] j = "source" -> Str("pi-reminder-server")])]

\* the push listener's 'if (event.data) { try ... catch ... }'
MergedData(ev) ==
    IF ~ev.has THEN DefaultNotificationData
    ELSE LET pushData == PushJson(ev.text)
         IN  IF pushData.ok
             THEN Spread(DefaultNotificationData, OwnMembers(pushData.val))
             ELSE Assign(DefaultNotificationData, "body", Str(Text(ev.text)))

\* a platform step that yields to what the payload gave
PlatformVariantPayloadFirst(data, ios) ==
    IF ios
    THEN Spread([k \in {"vibrate", "requireInteraction"} |->
                    IF k = "vibrate" THEN DefaultVibrate ELSE Lit("true")], data)
    ELSE Spread([k \in {"actions"} |-> DefaultActions], data)

\* the push listener's 'if (isIOS) { ... } else { ... }'
PlatformVariant(data, ios) ==
    IF ios
    THEN Assign(Assign(Delete(data, "actions"), "vibrate", DefaultVibrate),
                "requireInteraction", Lit("true"))
    ELSE Assign(data, "actions", DefaultActions)

\* a merge that lets the defaults win over the payload
NotificationDataDefaultsFirst(ev, ios) ==
    IF ev.has /\ PushJson(ev.text).ok
    THEN PlatformVariant(Spread(OwnMembers(PushJson(ev.text).val),
                                DefaultNotificationData), ios)
    ELSE PlatformVariant(MergedData(ev), ios)

\* notificationData as the push listener hands it to showNotification
NotificationData(ev, ios) == PlatformVariant(MergedData(ev), ios)

(* --------------------------- sw.js: the handlers ------------------------ *)

\* the worker's state as one value, for the functions below; a task starts
\* with no request sent
Worker ==
    [notifications |-> notifications, windows |-> windows, messages |-> messages,
     responses |-> responses, jobs |-> jobs, events |-> events, sent |-> <<>>]

\* a task of the worker ended in state w
WorkerTask(w, label) ==
    /\ notifications' = w.notifications
    /\ windows' = w.windows
    /\ messages' = w.messages
    /\ responses' = w.responses
    /\ jobs' = w.jobs
    /\ events' = w.events
    /\ sent' = w.sent
    /\ handled' = label
    /\ UNCHANGED <<appVars, isIOS, reachable>>

\* the event the worker is handed next
NextEvent(w) == w.events + 1

\* the i-th pending chain of the worker ends
Finished(w, i) == [w EXCEPT !.jobs = RemoveAt(@, i)]

\* the i-th pending chain of the worker goes on to wait at pc
Goes(w, i, pc) == [w EXCEPT !.jobs[i].pc = pc]

\* no window client
NoWindow == 0

\* client.postMessage({type, ...}) to the window id, in the chain of event
Message(id, type, event) == [to |-> id, type |-> type, event |-> event]

\* a push listener that tells the windows before it renders
pushListenerTellingFirst(w, ev, ios) ==
    [w EXCEPT !.events = NextEvent(w),
              !.messages = @ \o [j \in 1..Len(w.windows) |->
                                    Message(w.windows[j].id, "PUSH_RECEIVED",
                                            NextEvent(w))],
              !.jobs = Append(@, [kind |-> "push", pc |-> "show",
                                  event |-> NextEvent(w), push |-> ev,
                                  data |-> NotificationData(ev, ios)])]

\* 'push' listener: up to event.waitUntil(showNotification(...))
pushListener(w, ev, ios) ==
    [w EXCEPT !.events = NextEvent(w),
              !.jobs = Append(@, [kind |-> "push", pc |-> "show",
                                  event |-> NextEvent(w), push |-> ev,
                                  data |-> NotificationData(ev, ios)])]

\* showNotification(title, options) resolved: the notification as rendered,
\* with the push it came from as history, takes the place of those on display
\* with its tag; then clients.matchAll
pushShown(w, i) ==
    LET data == w.jobs[i].data
    IN  [Goes(w, i, "matchAll") EXCEPT
            !.notifications =
                Append(SelectSeq(@, LAMBDA n : n.options["tag"] # data["tag"]),
                       [title |-> data["title"], options |-> data,
                        push |-> w.jobs[i].push])]

\* clients.matchAll resolved in the push chain: every window is told
pushMatched(w, i) ==
    [Finished(w, i) EXCEPT
        !.messages = @ \o [j \in 1..Len(w.windows) |->
                              Message(w.windows[j].id, "PUSH_RECEIVED",
                                      w.jobs[i].event)]]

\* a click listener that does not tell 'dismiss' from the other actions
notificationClickAnyAction(w, n, action) ==
    [w EXCEPT !.events = NextEvent(w),
              !.notifications = RemoveAt(@, n),
              !.jobs = Append(@, [kind |-> "click", pc |-> "matchAll",
                                  event |-> NextEvent(w), client |-> NoWindow])]

\* 'notificationclick' listener on the n-th notification on display: it is
\* closed, and unless the action is 'dismiss' clients.matchAll is called
notificationClick(w, n, action) ==
    LET w1 == [w EXCEPT !.events = NextEvent(w),
                        !.notifications = RemoveAt(@, n)]
    IN  IF action = "dismiss" THEN w1
        ELSE [w1 EXCEPT !.jobs = Append(@, [kind |-> "click", pc |-> "matchAll",
                                            event |-> NextEvent(w),
                                            client |-> NoWindow])]

\* a click chain that goes for the last window of the list
clickMatchedLast(w, i, canOpen) ==
    IF w.windows # <<>>
    THEN [w EXCEPT !.jobs[i].pc = "focus",
                   !.jobs[i].client = w.windows[Len(w.windows)].id]
    ELSE IF canOpen THEN Goes(w, i, "open")
    ELSE Finished(w, i)

\* clients.matchAll resolved in a click chain: every window client is of the
\* worker's origin and can be focused, so the first of the list is taken;
\* without one, clients.openWindow is called if the platform has it (canOpen)
clickMatched(w, i, canOpen) ==
    IF w.windows # <<>>
    THEN [w EXCEPT !.jobs[i].pc = "focus", !.jobs[i].client = w.windows[1].id]
    ELSE IF canOpen THEN Goes(w, i, "open")
    ELSE Finished(w, i)

\* the windows ws with the window id focused
Focus(ws, id) == [j \in 1..Len(ws) |-> [ws[j] EXCEPT !.focused = (ws[j].id = id)]]

\* client.focus() resolved: the focused client is sent the message
clickFocused(w, i) ==
    [Finished(w, i) EXCEPT
        !.windows = Focus(@, w.jobs[i].client),
        !.messages = Append(@, Message(w.jobs[i].client, "NOTIFICATION_CLICKED",
                                       w.jobs[i].event))]

\* clients.openWindow('./') resolved, with a client for the new window or
\* with null: setTimeout(..., 1000) is set and the chain settles
clickOpened(w, i, withClient) ==
    LET id == Len(w.windows) + 1
    IN  [w EXCEPT !.windows = Append(Focus(@, id), [id |-> id, focused |-> TRUE]),
                  !.jobs[i].pc = "timer",
                  !.jobs[i].client = IF withClient THEN id ELSE NoWindow]

\* the timer set after openWindow fires
clickTimer(w, i) ==
    IF w.jobs[i].client = NoWindow THEN Finished(w, i)
    ELSE [Finished(w, i) EXCEPT
             !.messages = Append(@, Message(w.jobs[i].client, "NOTIFICATION_CLICKED",
                                            w.jobs[i].event))]

\* const CACHE_NAME
CACHE_NAME == "simple-reminders-v2"

\* event.ports[0].postMessage({version, type}) in the task of event: the
\* reply goes out on the port the window id sent along
VersionReply(id, event) ==
    [to |-> id, type |-> "simple-reminders", event |-> event, version |-> CACHE_NAME]

\* 'message' listener, type being event.data.type ("" when event.data is
\* null or has no type), ports the length of event.ports and from the window
\* that posted. On SKIP_WAITING self.skipWaiting() is called, which changes
\* nothing for a worker that is active, as one that is handed push and click
\* events is. On GET_VERSION the reply is posted on the first port; without
\* a port event.ports[0] is undefined, postMessage of it throws and the
\* listener ends with nothing posted
messageListener(w, from, type, ports) ==
    IF type = "GET_VERSION" /\ ports > 0
    THEN [w EXCEPT !.events = NextEvent(w),
                   !.messages = Append(@, VersionReply(from, NextEvent(w)))]
    ELSE [w EXCEPT !.events = NextEvent(w)]

\* what a window posts to the worker: the two types the listener knows,
\* another type, data that is null; with one port or with none
MessageTypes == {"SKIP_WAITING", "GET_VERSION", "PING", ""}
MessagePorts == {0, 1}

\* the actions of a notification interaction: a tap on the notification, on
\* 'Open App' and on 'Dismiss'
ClickActions == {"", "open", "dismiss"}

\* A URL is a sequence of pieces of text. String.prototype.includes: part
\* occurs in text as a run of consecutive pieces
Includes(text, part) ==
    \E i \in 1..(Len(text) - Len(part) + 1) :
        SubSeq(text, i, i + Len(part) - 1) = part

\* a fetch listener that looks at the port only
fetchListenerPortOnly(w, url) ==
    IF Includes(url, <<":3001">>)
    THEN [w EXCEPT !.events = NextEvent(w),
                   !.responses = Append(@, [url |-> url, by |-> "browser"])]
    ELSE [w EXCEPT !.events = NextEvent(w),
                   !.jobs = Append(@, [kind |-> "fetch", pc |-> "cache",
                                       event |-> NextEvent(w), url |-> url])]

\* 'fetch' listener: a request the listener returns on without respondWith
\* is answered by the browser from the network; for any other,
\* event.respondWith(caches.match(...)...)
fetchListener(w, url) ==
    IF Includes(url, <<"192.168.">>) /\ Includes(url, <<":3001">>)
    THEN [w EXCEPT !.events = NextEvent(w),
                   !.responses = Append(@, [url |-> url, by |-> "browser"])]
    ELSE [w EXCEPT !.events = NextEvent(w),
                   !.jobs = Append(@, [kind |-> "fetch", pc |-> "cache",
                                       event |-> NextEvent(w), url |-> url])]

\* the i-th pending chain, of a fetch event, settles: respondWith's promise
\* resolves with a response from by
Responded(w, i, by) ==
    [Finished(w, i) EXCEPT
        !.responses = Append(@, [url |-> w.jobs[i].url, by |-> by])]

\* event.oldSubscription of an event that carries none
NoSubscription == <<>>

\* 'pushsubscriptionchange' listener, old being event.oldSubscription:
\* pushManager.subscribe with event.oldSubscription.options
\* .applicationServerKey; with no old subscription reading the key throws
\* while the argument of subscribe is built, before subscribe is called and
\* before there is a promise for the catch of the chain or for waitUntil,
\* and the listener ends there
subscriptionChange(w, old) ==
    IF old = NoSubscription THEN [w EXCEPT !.events = NextEvent(w)]
    ELSE [w EXCEPT !.events = NextEvent(w),
                   !.jobs = Append(@, [kind |-> "resubscribe", pc |-> "subscribe",
                                       event |-> NextEvent(w), old |-> old[2],
                                       key |-> old[2]])]

\* pushManager.subscribe resolved in the worker: the new subscription is
\* posted to the server
resubscribed(w, i) ==
    [Goes(w, i, "fetch") EXCEPT
        !.sent = Append(@, Request("POST", "/subscribe", Subscription(w.jobs[i].key)))]

\* the server, as the application and the worker address it
ServerUrl == <<"https://", "192.168.", "0.147", ":3001">>

\* the requests tried: to the server, for a file of the application, to
\* another host of the local network on the server's port, to the server's
\* address on another port, to a public host on the server's port
FetchUrls ==
    {ServerUrl \o <<"/sync-reminders">>,
     <<"https://", "reminders.example", "/app.js">>,
     <<"http://", "192.168.", "1.20", ":3001", "/">>,
     <<"https://", "192.168.", "0.147", ":8080", "/">>,
     <<"https://", "reminders.example", ":3001", "/">>}

\* the keys an invalidated subscription can have been made with, and the
\* old subscriptions an event can carry: one made with such a key, or none
OldKeys == {VapidKey, "earlier vapid key"}
OldSubscriptions == {NoSubscription} \cup {Subscription(k) : k \in OldKeys}

\* the push payloads tried: objects, with a member that is itself an object
\* or an array, with escapes in a string and a number beyond the doubles,
\* JSON texts that are no object, and texts that are no JSON: plain words,
\* and an object with the character U+0008 in a string, which JSON has as an
\* escape only
EmptyObjectPush == Data("{}")
BodyPush == Data("{\"body\":\"Take medicine\"}")
ActionsPush ==
    Data("{\"requireInteraction\":false,\"vibrate\":[500],\"actions\":[{\"action\":\"snooze\",\"title\":\"Snooze\"}]}")
NestedPush ==
    Data("{\"title\":\"Pills\",\"data\":{\"url\":\"x\"},\"body\":\"Take medicine\"}")
NullPush == Data("null")
ArrayPush == Data("[500]")
StringPush == Data("\"hi\"")
EscapedPush == Data("{\"title\":\"caf\\u00e9 \\u23f0\",\"body\":\"a\\bb\",\"vibrate\":[1e400]}")
TextPush == Data("Take medicine")
ControlPush == Data("{\"body\":\"Takemedicine\"}")
PushEvents ==
    {NoData, EmptyObjectPush, BodyPush, ActionsPush, NestedPush, NullPush,
     ArrayPush, StringPush, EscapedPush, TextPush, ControlPush}

\* the window clients open when the worker wakes up
Window(id) == [id |-> id, focused |-> FALSE]
OpenWindows == {<<>>, <<Window(1)>>, <<Window(1), Window(2)>>}

\* the notifications on display when the worker wakes up: none, or the one
\* an earlier push without data was rendered as
Rendered(ev, ios) ==
    [title |-> NotificationData(ev, ios)["title"],
     options |-> NotificationData(ev, ios), push |-> ev]
OnDisplay(ios) == {<<>>, <<Rendered(NoData, ios)>>}

\* self 'push'
PushEvent(ev) ==
    /\ events < MaxEvents
    /\ WorkerTask(pushListener(Worker, ev, isIOS), "push")

\* showNotification settles in a push chain
PushShowSettled(i, shown) ==
    /\ i \in 1..Len(jobs)
    /\ jobs[i].kind = "push" /\ jobs[i].pc = "show"
    /\ IF shown THEN WorkerTask(pushShown(Worker, i), "shown")
       ELSE WorkerTask(Finished(Worker, i), "push failed")

\* clients.matchAll settles in a push chain; a rejection lands in the catch
PushMatchAllSettled(i, listed) ==
    /\ i \in 1..Len(jobs)
    /\ jobs[i].kind = "push" /\ jobs[i].pc = "matchAll"
    /\ IF listed THEN WorkerTask(pushMatched(Worker, i), "push told")
       ELSE WorkerTask(Finished(Worker, i), "push untold")

\* self 'notificationclick'
NotificationClick(n, action) ==
    /\ events < MaxEvents
    /\ n \in 1..Len(notifications)
    /\ WorkerTask(notificationClick(Worker, n, action),
                  IF action = "dismiss" THEN "dismissed" ELSE "clicked")

\* clients.matchAll settles in a click chain
ClickMatchAllSettled(i, canOpen) ==
    /\ i \in 1..Len(jobs)
    /\ jobs[i].kind = "click" /\ jobs[i].pc = "matchAll"
    /\ WorkerTask(clickMatched(Worker, i, canOpen), "click matched")

\* client.focus() settles in a click chain; a rejection lands in the catch
ClickFocusSettled(i, focused) ==
    /\ i \in 1..Len(jobs)
    /\ jobs[i].kind = "click" /\ jobs[i].pc = "focus"
    /\ IF focused THEN WorkerTask(clickFocused(Worker, i), "click focused")
       ELSE WorkerTask(Finished(Worker, i), "click failed")

\* clients.openWindow settles in a click chain; a rejection lands in the catch
ClickOpenSettled(i, outcome) ==
    /\ i \in 1..Len(jobs)
    /\ jobs[i].kind = "click" /\ jobs[i].pc = "open"
    /\ IF outcome = "rejected" THEN WorkerTask(Finished(Worker, i), "click failed")
       ELSE WorkerTask(clickOpened(Worker, i, outcome = "client"), "click opened")

\* the timer of a click chain fires
ClickTimerFired(i) ==
    /\ i \in 1..Len(jobs)
    /\ jobs[i].kind = "click" /\ jobs[i].pc = "timer"
    /\ WorkerTask(clickTimer(Worker, i), "click timer")

\* self 'message', posted by the j-th open window
MessageEvent(j, type, ports) ==
    /\ events < MaxEvents
    /\ j \in 1..Len(windows)
    /\ WorkerTask(messageListener(Worker, windows[j].id, type, ports), "message")

\* self 'fetch'
FetchEvent(url) ==
    /\ events < MaxEvents
    /\ WorkerTask(fetchListener(Worker, url), "fetch")

\* caches.match settles in a fetch chain: a hit is the response, a miss goes
\* to the network, a rejection lands in the catch
FetchCacheSettled(i, outcome) ==
    /\ i \in 1..Len(jobs)
    /\ jobs[i].kind = "fetch" /\ jobs[i].pc = "cache"
    /\ IF outcome = "hit" THEN WorkerTask(Responded(Worker, i, "cache"), "fetch answered")
       ELSE IF outcome = "miss" THEN WorkerTask(Goes(Worker, i, "network"), "fetch missed")
       ELSE WorkerTask(Responded(Worker, i, "synthetic"), "fetch answered")

\* fetch(event.request) settles in a fetch chain
FetchNetworkSettled(i, reached) ==
    /\ i \in 1..Len(jobs)
    /\ jobs[i].kind = "fetch" /\ jobs[i].pc = "network"
    /\ WorkerTask(Responded(Worker, i, IF reached THEN "network" ELSE "synthetic"),
                  "fetch answered")

\* self 'pushsubscriptionchange', the event carrying the old subscription
\* or none
SubscriptionChangeEvent(old) ==
    /\ events < MaxEvents
    /\ WorkerTask(subscriptionChange(Worker, old), "subscription change")

\* pushManager.subscribe settles in the worker; a rejection lands in the catch
ResubscribeSettled(i, created) ==
    /\ i \in 1..Len(jobs)
    /\ jobs[i].kind = "resubscribe" /\ jobs[i].pc = "subscribe"
    /\ IF created THEN WorkerTask(resubscribed(Worker, i), "resubscribed")
       ELSE WorkerTask(Finished(Worker, i), "resubscribe failed")

\* the worker's POST /subscribe settles: either status is logged, a
\* rejection lands in the catch
ResubscribePostSettled(i, outcome) ==
    /\ i \in 1..Len(jobs)
    /\ jobs[i].kind = "resubscribe" /\ jobs[i].pc = "fetch"
    /\ WorkerTask(Finished(Worker, i),
                  IF outcome = "error" THEN "resubscribe failed" ELSE "resubscribe posted")

\* the worker wakes up beside a page past start-up
WorkerInit ==
    /\ IdleApp(<<>>, NoItem, TRUE)
    /\ \E ios \in BOOLEAN, ws \in OpenWindows :
           \E ns \in OnDisplay(ios) : WorkerAsleep(ios, ws, ns)

WorkerNext ==
    \/ \E ev \in PushEvents : PushEvent(ev)
    \/ \E i \in 1..Len(jobs), b \in BOOLEAN : PushShowSettled(i, b)
    \/ \E i \in 1..Len(jobs), b \in BOOLEAN : PushMatchAllSettled(i, b)
    \/ \E n \in 1..Len(notifications), a \in ClickActions : NotificationClick(n, a)
    \/ \E i \in 1..Len(jobs), b \in BOOLEAN : ClickMatchAllSettled(i, b)
    \/ \E i \in 1..Len(jobs), b \in BOOLEAN : ClickFocusSettled(i, b)
    \/ \E i \in 1..Len(jobs), o \in {"client", "null", "rejected"} :
           ClickOpenSettled(i, o)
    \/ \E i \in 1..Len(jobs) : ClickTimerFired(i)
    \/ \E j \in 1..Len(windows), type \in MessageTypes, ports \in MessagePorts :
           MessageEvent(j, type, ports)

WorkerSpec == WorkerInit /\ [][WorkerNext]_vars

\* the worker's events that have to do with the network, on their own
WorkerNetNext ==
    \/ \E url \in FetchUrls : FetchEvent(url)
    \/ \E i \in 1..Len(jobs), o \in {"hit", "miss", "rejected"} : FetchCacheSettled(i, o)
    \/ \E i \in 1..Len(jobs), b \in BOOLEAN : FetchNetworkSettled(i, b)
    \/ \E old \in OldSubscriptions : SubscriptionChangeEvent(old)
    \/ \E i \in 1..Len(jobs), b \in BOOLEAN : ResubscribeSettled(i, b)
    \/ \E i \in 1..Len(jobs), o \in Outcomes : ResubscribePostSettled(i, o)

WorkerNetSpec == WorkerInit /\ [][WorkerNetNext]_vars

(* ----------------------- the worker's guarantees ------------------------ *)

\* the notification n has field k as given by its push, or else as the default
Overridden(n, given, k) ==
    IF k \in DOMAIN given
    THEN k \in DOMAIN n.options /\ n.options[k] = given[k]
    ELSE IF k \in DOMAIN DefaultNotificationData
    THEN k \in DOMAIN n.options /\ n.options[k] = DefaultNotificationData[k]
    ELSE TRUE

\* what each of the payloads tried gives, written out value by value: the
\* members of the object it is the text of, the elements of the array and
\* the code units of the string under their indices, nothing for null and
\* for no payload, and its text as body when JSON.parse throws on it
GivenBy ==
    [ev \in PushEvents |->
        CASE ev \in {NoData, EmptyObjectPush, NullPush} -> [k \in {} |-> [lit |-> "null"]]
          [] ev \in {BodyPush, TextPush} -> [k \in {"body"} |-> [str |-> "Take medicine"]]
          [] ev = ActionsPush ->
                 [k \in {"requireInteraction", "vibrate", "actions"} |->
                     CASE k = "requireInteraction" -> [lit |-> "false"]
                       [] k = "vibrate" -> [arr |-> <<[num |-> "5", exp |-> 2]>>]
                       [] k = "actions" ->
                              [arr |-> <<[obj |-> [j \in {"action", "title"} |->
                                                     IF j = "action" THEN [str |-> "snooze"]
                                                     ELSE [str |-> "Snooze"]]]>>]]
          [] ev = NestedPush ->
                 [k \in {"title", "data", "body"} |->
                     CASE k = "title" -> [str |-> "Pills"]
                       [] k = "data" -> [obj |-> [j \in {"url"} |-> [str |-> "x"]]]
                       [] k = "body" -> [str |-> "Take medicine"]]
          [] ev = ArrayPush -> [k \in {"0"} |-> [num |-> "5", exp |-> 2]]
          [] ev = StringPush ->
                 [k \in {"0", "1"} |-> IF k = "0" THEN [str |-> "h"] ELSE [str |-> "i"]]
          [] ev = EscapedPush ->
                 [k \in {"title", "body", "vibrate"} |->
                     CASE k = "title" -> [str |-> "café ⏰"]
                       [] k = "body" -> [str |-> "a\\u0008b"]
                       [] k = "vibrate" -> [arr |-> <<[num |-> "Infinity", exp |-> 0]>>]]
          [] ev = ControlPush ->
                 [k \in {"body"} |-> [str |-> "{\"body\":\"Take\\u0008medicine\"}"]]]

\* the fields a push or the defaults can give
FieldNames ==
    DOMAIN DefaultNotificationData \cup UNION {DOMAIN GivenBy[ev] : ev \in PushEvents}

\* C15 as claimed: every field of every rendered notification is the one its
\* push gave, or else the default.
C15_PayloadOverridesDefaults ==
    \A i \in 1..Len(notifications) :
        /\ notifications[i].title = notifications[i].options["title"]
        /\ LET given == GivenBy[notifications[i].push]
           IN  \A k \in FieldNames : Overridden(notifications[i], given, k)

\* the fields the platform step sets after the merge
PlatformFields == IF isIOS THEN {"actions", "vibrate", "requireInteraction"}
                  ELSE {"actions"}

\* C15 as amended: every field of every rendered notification but those of
\* the platform step is the one its push gave, or else the default (so: no
\* payload or an empty object give the default title and body, a payload with
\* a body only gives the default title and that body, a payload that does not
\* parse, plain words or a text with a control character in a string, gives
\* the default title and its text as body, a payload written with escapes
\* gives the characters they stand for), and it has no other field; the
\* platform step sets the two actions whatever the payload, and on iOS
\* leaves no actions and sets the default vibration and requireInteraction.
C15_PayloadOverridesButPlatformFields ==
    \A i \in 1..Len(notifications) :
        LET n == notifications[i]
            given == GivenBy[n.push]
        IN  /\ n.title = n.options["title"]
            /\ \A k \in FieldNames \ PlatformFields : Overridden(n, given, k)
            /\ DOMAIN n.options \ PlatformFields
                   = (DOMAIN given \cup DOMAIN DefaultNotificationData) \ PlatformFields
            /\ IF isIOS
               THEN /\ "actions" \notin DOMAIN n.options
                    /\ n.options["vibrate"] = DefaultVibrate
                    /\ n.options["requireInteraction"] = Lit("true")
               ELSE n.options["actions"] = DefaultActions
            /\ n.push \in {NoData, EmptyObjectPush} =>
                   n.title = DefaultTitle /\ n.options["body"] = DefaultBody
            /\ n.push = BodyPush =>
                   n.title = DefaultTitle /\ n.options["body"] = Str("Take medicine")
            /\ n.push = TextPush =>
                   n.title = DefaultTitle /\ n.options["body"] = Str("Take medicine")
            /\ n.push = ControlPush =>
                   /\ n.title = DefaultTitle
                   /\ n.options["body"] = Str("{\"body\":\"Take\\u0008medicine\"}")
            /\ n.push = EscapedPush =>
                   /\ n.title = Str("café ⏰")
                   /\ n.options["body"] = Str("a\\u0008b")
                   /\ isIOS \/ n.options["vibrate"] = Arr(<<Infinity(FALSE)>>)

\* on iOS a push asking for no required interaction is on display, beside
\* one that gave a body only
C15_Witness ==
    /\ isIOS
    /\ \E i \in 1..Len(notifications) :
           /\ "requireInteraction" \in DOMAIN GivenBy[notifications[i].push]
           /\ notifications[i].options["requireInteraction"] = Lit("true")
           /\ notifications[i].title = DefaultTitle

\* the NOTIFICATION_CLICKED messages among ms that the chain of event e sent
Clicked(ms, e) ==
    SelectSeq(ms, LAMBDA m : m.type = "NOTIFICATION_CLICKED" /\ m.event = e)

\* this step ends the i-th pending chain, a click chain
ClickChainEnds(i) ==
    /\ jobs[i].kind = "click"
    /\ \A j \in 1..Len(jobs') : jobs'[j].event # jobs[i].event

\* C16 as claimed: the chain of every interaction other than 'dismiss' ends
\* with exactly one NOTIFICATION_CLICKED message sent for it, to the first
\* open window if there was one and else to the window it opened.
C16_ExactlyOneClicked ==
    [][\A i \in 1..Len(jobs) :
          ClickChainEnds(i) =>
              /\ Len(Clicked(messages', jobs[i].event)) = 1
              /\ Clicked(messages', jobs[i].event)[1].to =
                     IF jobs[i].pc = "timer" THEN jobs[i].client
                     ELSE windows[1].id]_vars

\* C16 as amended: for every interaction other than 'dismiss' at most one
\* window is focused or opened and at most one NOTIFICATION_CLICKED message
\* is sent, and only as its chain ends: when focus() of the first open window
\* resolves, that window is focused, no other is, none is opened and it is
\* sent the one message; when there was no window and openWindow gave a
\* client, one window was opened and it is sent the one message only when the
\* timer fires; when focus() or openWindow rejects, openWindow gives null or
\* is missing, no message is sent.
C16_AtMostOneClicked ==
    [][/\ \A i \in 1..Len(jobs) :
              jobs[i].kind = "click" =>
                  LET e == jobs[i].event
                  IN  IF ~ClickChainEnds(i) THEN Clicked(messages', e) = <<>>
                      ELSE IF handled' = "click focused"
                      THEN /\ Clicked(messages', e) =
                                  <<Message(windows[1].id, "NOTIFICATION_CLICKED", e)>>
                           /\ windows' = Focus(windows, windows[1].id)
                      ELSE IF handled' = "click timer" /\ jobs[i].client # NoWindow
                      THEN /\ Clicked(messages', e) =
                                  <<Message(jobs[i].client, "NOTIFICATION_CLICKED", e)>>
                           /\ \E j \in 1..Len(windows) : windows[j].id = jobs[i].client
                           /\ windows' = windows
                      ELSE /\ Clicked(messages', e) = <<>>
                           /\ windows' = windows
                           /\ handled' \in {"click failed", "click matched", "click timer"}
       /\ handled' = "click opened" =>
              /\ Len(windows') = Len(windows) + 1
              /\ \E i \in 1..Len(jobs) : jobs[i].kind = "click" /\ jobs[i].pc = "open"
       /\ handled' = "click matched" => windows' = windows
       /\ handled' = "clicked" => windows' = windows /\ messages' = messages]_vars

\* with two windows open, the first was focused and sent the one message of
\* the interaction
C16_Witness ==
    /\ handled = "click focused"
    /\ Len(windows) = 2
    /\ windows[1].focused /\ ~windows[2].focused
    /\ \E e \in 1..events :
           Clicked(messages, e) = <<Message(windows[1].id, "NOTIFICATION_CLICKED", e)>>

\* C17: a notification interaction with action 'dismiss' closes the
\* notification and does nothing else: no window is focused or opened, no
\* message is posted, no request is made and no chain is left pending.
C17_DismissOnlyCloses ==
    [][handled' = "dismissed" =>
          /\ \E n \in 1..Len(notifications) : notifications' = RemoveAt(notifications, n)
          /\ windows' = windows
          /\ messages' = messages
          /\ responses' = responses
          /\ jobs' = jobs
          /\ sent' = <<>>]_vars

\* the one notification on display was dismissed with a window open, which
\* stayed as it was
C17_Witness ==
    /\ handled = "dismissed"
    /\ notifications = <<>>
    /\ windows = <<Window(1)>>
    /\ messages = <<>>
    /\ jobs = <<>>

\* the request is addressed to the server: its URL starts with the server's
IsToServer(url) ==
    Len(url) >= Len(ServerUrl) /\ SubSeq(url, 1, Len(ServerUrl)) = ServerUrl

\* C18 as claimed: a request to the server is never answered by the fetch
\* listener (not from the cache, not by the synthetic response) and never
\* waits on it, and every other request is answered by the listener.
C18_OnlyServerRequestsPass ==
    /\ \A i \in 1..Len(responses) :
           responses[i].by = "browser" <=> IsToServer(responses[i].url)
    /\ \A i \in 1..Len(jobs) : jobs[i].kind = "fetch" => ~IsToServer(jobs[i].url)

\* the URL has both of the texts the listener looks for
HasBothMarks(url) == Includes(url, <<"192.168.">>) /\ Includes(url, <<":3001">>)

\* C18 as amended: a request whose URL contains both '192.168.' and ':3001',
\* as every request to the server does, is never answered by the fetch
\* listener and never waits on it, whatever the cache holds and whether the
\* network is up; every request whose URL lacks one of the two is answered
\* by the listener: from the cache, from the network, or by the synthetic
\* response.
C18_MarkedRequestsPass ==
    /\ \A i \in 1..Len(responses) :
           /\ responses[i].by = "browser" <=> HasBothMarks(responses[i].url)
           /\ responses[i].by \in {"browser", "cache", "network", "synthetic"}
           /\ IsToServer(responses[i].url) => responses[i].by = "browser"
    /\ \A i \in 1..Len(jobs) : jobs[i].kind = "fetch" => ~HasBothMarks(jobs[i].url)
    /\ \A url \in FetchUrls : IsToServer(url) => HasBothMarks(url)

\* a request to the server went past the listener, and one for a file of
\* the application got the synthetic response
C18_Witness ==
    /\ \E i \in 1..Len(responses) :
           IsToServer(responses[i].url) /\ responses[i].by = "browser"
    /\ \E i \in 1..Len(responses) :
           ~HasBothMarks(responses[i].url) /\ responses[i].by = "synthetic"

\* C20 as claimed: on every pushsubscriptionchange event the worker calls
\* pushManager.subscribe with the key of the old subscription; only when that
\* has resolved does it send a request, exactly one POST /subscribe with the
\* new subscription; no step of the chain posts a message to a window,
\* focuses, opens or lists one; a rejection of either step ends the chain in
\* its catch, with nothing sent. (An event without old subscription starts
\* no chain: the listener throws and nothing is subscribed.)
C20_ResubscribeThenPost ==
    [][/\ handled' = "subscription change" =>
              /\ sent' = <<>>
              /\ Len(jobs') = Len(jobs) + 1
              /\ jobs'[Len(jobs')].kind = "resubscribe"
              /\ jobs'[Len(jobs')].pc = "subscribe"
              /\ jobs'[Len(jobs')].old \in OldKeys
              /\ jobs'[Len(jobs')].key = jobs'[Len(jobs')].old
       /\ handled' = "resubscribed" =>
              \E i \in 1..Len(jobs) :
                  /\ jobs[i].kind = "resubscribe" /\ jobs[i].pc = "subscribe"
                  /\ jobs' = [jobs EXCEPT ![i].pc = "fetch"]
                  /\ sent' = <<Request("POST", "/subscribe", Subscription(jobs[i].key))>>
       /\ handled' \in {"resubscribe failed", "resubscribe posted"} =>
              /\ sent' = <<>>
              /\ \E i \in 1..Len(jobs) :
                     jobs[i].kind = "resubscribe" /\ jobs' = RemoveAt(jobs, i)
       /\ handled' \in {"subscription change", "resubscribed", "resubscribe failed",
                         "resubscribe posted"} =>
              /\ messages' = messages
              /\ windows' = windows
              /\ notifications' = notifications
       /\ sent' # <<>> => handled' = "resubscribed"]_vars

(* ------------------------- the ids of the reminders --------------------- *)

\* a session past start-up, Offline, with the list an earlier session left
IdInit ==
    \E rs \in {<<>>, <<PriorReminder>>}, w \in BOOLEAN :
        Idle(rs, Item(JSONstringify(rs)), w)

\* an edit handler on its own ended in state s, having read the clock as
\* tnow; the user makes MaxLen + 1 changes at most
Edited(s, label, tnow) ==
    /\ s # Cur
    /\ edits <= MaxLen
    /\ Commit(s)
    /\ handled' = label
    /\ edits' = edits + 1
    /\ now' = IF s.reminders # reminders THEN tnow ELSE now
    /\ UNCHANGED <<unsynced, permission, storageWritable>>

\* addReminder()
IdAdd(in, t) ==
    Edited(addReminder(Cur, in.dateTime, in.note, in.repeat, in.confirmPast,
                       t.check, t.id, t.created, storageWritable), "add", t.created)

\* editReminder(id)
IdEdit(id) == Edited(editReminder(Cur, id), "other", now)

\* saveEdit()
IdSave(in, tnow) ==
    Edited(saveEdit(Cur, in.dateTime, in.note, in.repeat, tnow, storageWritable),
           "save", tnow)

\* deleteReminder(id)
IdDelete(id, confirmed) ==
    Edited(deleteReminder(Cur, id, confirmed, storageWritable), "delete", now)

IdNext ==
    \/ \E in \in AddInputs, t \in AddReadings : IdAdd(in, t)
    \/ \E id \in Ids : IdEdit(id)
    \/ \E in \in EditInputs, tnow \in EditReadings : IdSave(in, tnow)
    \/ \E id \in Ids, c \in BOOLEAN : IdDelete(id, c)

IdSpec == IdInit /\ [][IdNext]_vars

\* C19: in every reachable state no two reminders of the list have the same
\* id, whatever adds, updates and deletes were made, two adds at one reading
\* of the clock included; and an update leaves the id of every reminder as
\* it was.
C19_IdsUnique ==
    [][/\ \A i, j \in 1..Len(reminders') :
              reminders'[i].id = reminders'[j].id => i = j
       /\ handled' = "save" =>
              /\ Len(reminders') = Len(reminders)
              /\ \A i \in 1..Len(reminders) : reminders'[i].id = reminders[i].id]_vars

(* --------------------- the retry timer and a server back ---------------- *)

\* how a request can settle, and how a body can parse: once the server is
\* reachable for good, every request is answered 2xx with a body that parses
Answers == IF reachable THEN {"ok"} ELSE Outcomes
Parses == IF reachable THEN {TRUE} ELSE BOOLEAN

\* the server becomes reachable and stays so; the network is not lost again
ServerStays ==
    /\ ~reachable
    /\ reachable' = TRUE
    /\ sent' = <<>>
    /\ handled' = "server stays"
    /\ UNCHANGED <<appVars, workerVars>>

\* a session starts with nothing stored
RetryInit == Init /\ store = NoItem /\ storageWritable

\* the monitor and the coordinator without the user's edits
RetryNext ==
    \/ DOMContentLoaded(TRUE)
    \/ SetupServiceWorkerSettled(TRUE)
    \/ \E o \in Answers : BootProbeResponse(o)
    \/ \E b \in Parses : BootProbeBody(b)
    \/ \E o \in Answers : ProbeResponse(o)
    \/ \E b \in Parses : ProbeBody(b)
    \/ \E i \in 1..Len(syncs), o \in Answers : SyncResponse(i, o)
    \/ \E i \in 1..Len(syncs), b \in Parses : SyncJson(i, b)
    \/ RetryTimer
    \/ OnlineEvent
    \/ ~reachable /\ OfflineEvent
    \/ \E h \in BOOLEAN : VisibilityChange(h)
    \/ ServerStays

\* the page loads, every request settles and every body is read in the end,
\* and the interval timer keeps firing; nothing is assumed of the platform's
\* online events nor of visibility changes
RetryFairness ==
    /\ WF_vars(DOMContentLoaded(TRUE))
    /\ WF_vars(SetupServiceWorkerSettled(TRUE))
    /\ WF_vars(\E o \in Answers : BootProbeResponse(o))
    /\ WF_vars(\E b \in Parses : BootProbeBody(b))
    /\ WF_vars(\E o \in Answers : ProbeResponse(o))
    /\ WF_vars(\E b \in Parses : ProbeBody(b))
    /\ WF_vars(\E i \in 1..Len(syncs), o \in Answers : SyncResponse(i, o))
    /\ WF_vars(\E i \in 1..Len(syncs), b \in Parses : SyncJson(i, b))
    /\ WF_vars(RetryTimer)

RetrySpec == RetryInit /\ [][RetryNext]_vars /\ RetryFairness

\* C21: from any moment at which isOnline is false and from which on the
\* server answers every probe and sync and no offline event occurs, isOnline
\* becomes true and stays true, the interval timer being the only trigger
\* relied on; and a tick of the timer starts a probe (one GET /) exactly when
\* isOnline is false at the tick: a tick while Online changes nothing.
C21_TimerBringsOnline ==
    /\ []((reachable /\ ~isOnline) => <>[]isOnline)
    /\ [](IF isOnline THEN retryTimer(Cur) = Cur
          ELSE /\ retryTimer(Cur).probes.fetch = probes.fetch + 1
               /\ retryTimer(Cur).sent = <<Request("GET", "/", <<>>)>>)
    /\ [][handled' = "retry" =>
              /\ ~isOnline
              /\ probes'.fetch = probes.fetch + 1
              /\ sent' = <<Request("GET", "/", <<>>)>>]_vars

\* the network was lost during a sync and the server then came back: with
\* the sync still in flight, a tick of the timer started a probe
C21_Witness ==
    /\ reachable
    /\ handled = "retry"
    /\ ~isOnline
    /\ syncInProgress
    /\ probes.fetch = 1

(* ---------------------- every writer of isOnline ------------------------ *)

\* a session starts with the list an earlier session stored
MonitorInit ==
    /\ Init
    /\ store = Item(JSONstringify(<<PriorReminder>>)) /\ storageWritable

\* the monitor, the coordinator, the user's edits and the setup sequence, of
\* which one execution is followed at a time
MonitorNext ==
    \/ DOMContentLoaded(TRUE)
    \/ SetupServiceWorkerSettled(TRUE)
    \/ \E o \in Outcomes : BootProbeResponse(o)
    \/ \E b \in BOOLEAN : BootProbeBody(b)
    \/ \E o \in Outcomes : ProbeResponse(o)
    \/ \E b \in BOOLEAN : ProbeBody(b)
    \/ \E i \in 1..Len(syncs), o \in Outcomes : SyncResponse(i, o)
    \/ \E i \in 1..Len(syncs), b \in BOOLEAN : SyncJson(i, b)
    \/ RetryTimer
    \/ OnlineEvent
    \/ OfflineEvent
    \/ \E h \in BOOLEAN : VisibilityChange(h)
    \/ \E in \in AddInputs, t \in AddReadings : AddReminder(in, t)
    \/ \E id \in Ids : EditReminder(id)
    \/ \E in \in EditInputs, tnow \in EditReadings : SaveEdit(in, tnow)
    \/ \E id \in Ids, c \in BOOLEAN : DeleteReminder(id, c)
    \/ setups = <<>> /\ EnableClick
    \/ \E i \in 1..Len(setups), a \in PermissionAnswers : PermissionAnswered(i, a)
    \/ \E i \in 1..Len(setups), o \in Outcomes : VapidResponse(i, o)
    \/ \E i \in 1..Len(setups), b \in BOOLEAN : VapidJson(i, b)
    \/ \E i \in 1..Len(setups), b \in BOOLEAN : Subscribed(i, b)
    \/ \E i \in 1..Len(setups), o \in Outcomes : SubscribeResponse(i, o)
    \/ \E i \in 1..Len(setups), b \in BOOLEAN : SubscribeJson(i, b)

MonitorSpec == MonitorInit /\ [][MonitorNext]_vars

\* C22: isOnline is false when the page starts, and the only task that takes
\* it from false to true is the one in which a probe ends well (GET / answered
\* 2xx with a body that parses): a sync that ends well, a visibility change,
\* an add, update or delete, the sweep, and every step of the setup sequence,
\* its successful requests included, leave a false isOnline false.
C22_OnlineOnlyByProbe ==
    [][/\ boot = "init" => ~isOnline
       /\ (~isOnline /\ isOnline') => handled' = "probe ok"]_vars

\* the network was lost while POST /subscribe was in flight: the setup
\* sequence got through, the stored flag is written, and isOnline is false
C22_Witness ==
    /\ handled = "setup done"
    /\ enabledItem = "true"
    /\ ~isOnline
    /\ boot = "done"

(* ------------------- failed requests and the flag ----------------------- *)

\* this step ends a setup sequence on a failed request: its GET
\* /vapid-public-key or its POST /subscribe was rejected or answered non-2xx
SetupRequestFailed ==
    /\ handled' = "setup aborted"
    /\ \E i \in 1..Len(setups) :
           /\ setups[i].pc \in {"vapidFetch", "subscribeFetch"}
           /\ setups' = RemoveAt(setups, i)

\* C23: every request to the server that fails while isOnline is
\* true leaves isOnline false: a probe, a POST /sync-reminders, and the GET
\* /vapid-public-key and POST /subscribe of the setup sequence alike.
C23_AnyFailedRequestGoesOffline ==
    [][(isOnline /\ (handled' \in {"probe failed", "sync failed"} \/ SetupRequestFailed))
           => ~isOnline']_vars

(* ---------------------- the connectivity status line -------------------- *)

\* no probe and no sync is in flight: none of the timer, of an online event
\* or of start-up, and no syncWithServer execution is pending
NothingInFlight ==
    /\ syncs = <<>>
    /\ probes.fetch + probes.json = 0
    /\ boot \notin {"probeFetch", "probeJson", "sync"}

\* C24: in every reachable state with no probe and no sync in flight, the
\* status line shows its online indication exactly when isOnline is true,
\* whatever the interleaving of probes, syncs, online and offline events and
\* visibility changes, an offline event during a sync or a probe included.
C24_StatusLineAgreesWithFlag ==
    NothingInFlight => (statusEl.type = "online" <=> isOnline)

(* ------------------------ sw.js: the platform variant ------------------- *)

\* C25: the platform step wins over the payload. On iOS every notification
\* is rendered without actions, with requireInteraction true and with the
\* vibration [200, 100, 200], also when its payload gave actions,
\* requireInteraction false or another pattern; on any other platform it is
\* rendered with exactly the two actions 'open' and 'dismiss', also when its
\* payload gave other actions. The same holds of what a pending push chain
\* has handed to showNotification.
C25_PlatformVariantWins ==
    LET Varied(options) ==
            IF isIOS
            THEN /\ "actions" \notin DOMAIN options
                 /\ options["requireInteraction"] = Lit("true")
                 /\ options["vibrate"] =
                        Arr(<<Number(200, 0), Number(100, 0), Number(200, 0)>>)
            ELSE /\ "arr" \in DOMAIN options["actions"]
                 /\ [j \in 1..Len(options["actions"].arr) |->
                        options["actions"].arr[j].obj["action"]]
                        = <<Str("open"), Str("dismiss")>>
    IN  /\ \A i \in 1..Len(notifications) : Varied(notifications[i].options)
        /\ \A i \in 1..Len(jobs) : jobs[i].kind = "push" => Varied(jobs[i].data)

\* on iOS a push whose payload gave actions and requireInteraction false is
\* on display without actions
C25_Witness ==
    /\ isIOS
    /\ handled = "shown"
    /\ \E i \in 1..Len(notifications) :
           /\ {"actions", "requireInteraction"} \subseteq DOMAIN GivenBy[notifications[i].push]
           /\ "actions" \notin DOMAIN notifications[i].options

(* --------------------------- sw.js: a push arrives ---------------------- *)

\* the pending showNotification calls among the chains q
RenderCalls(q) == SelectSeq(q, LAMBDA j : j.kind = "push" /\ j.pc = "show")

\* the PUSH_RECEIVED messages among ms
PushReceived(ms) == SelectSeq(ms, LAMBDA m : m.type = "PUSH_RECEIVED")

\* this step ends the i-th pending chain, a push chain whose notification
\* was rendered
RenderedChainEnds(i) ==
    /\ jobs[i].kind = "push" /\ jobs[i].pc = "matchAll"
    /\ jobs' = RemoveAt(jobs, i)

\* C26: every push, whatever its payload, makes the listener call
\* showNotification exactly once (with the title and body its payload gives
\* or else the defaults, and no other task calls it); PUSH_RECEIVED is posted
\* only by the task that runs after that call resolved and clients.matchAll
\* resolved, once to each open window and to none when there is none, the
\* chain ending either way; when showNotification rejects, the chain ends in
\* its catch with no message posted and nothing put on display; when
\* clients.matchAll rejects, the chain ends in its catch with no message
\* posted.
C26_RenderOnceThenTell ==
    [][/\ handled' = "push" =>
              /\ events' = events + 1
              /\ Len(jobs') = Len(jobs) + 1
              /\ Len(RenderCalls(jobs')) = Len(RenderCalls(jobs)) + 1
              /\ jobs'[Len(jobs')].event = events'
              /\ jobs'[Len(jobs')].push \in PushEvents
              /\ \A k \in {"title", "body"} :
                     jobs'[Len(jobs')].data[k] =
                         IF k \in DOMAIN GivenBy[jobs'[Len(jobs')].push]
                         THEN GivenBy[jobs'[Len(jobs')].push][k]
                         ELSE DefaultNotificationData[k]
              /\ messages' = messages
              /\ notifications' = notifications
       /\ handled' # "push" => Len(RenderCalls(jobs')) <= Len(RenderCalls(jobs))
       /\ handled' = "shown" =>
              /\ messages' = messages
              /\ Len(RenderCalls(jobs')) = Len(RenderCalls(jobs)) - 1
              /\ Len(jobs') = Len(jobs)
              /\ notifications' # <<>>
       /\ handled' = "push failed" =>
              /\ messages' = messages
              /\ notifications' = notifications
              /\ Len(RenderCalls(jobs')) = Len(RenderCalls(jobs)) - 1
              /\ Len(jobs') = Len(jobs) - 1
       /\ handled' = "push told" =>
              \E i \in 1..Len(jobs) :
                  /\ RenderedChainEnds(i)
                  /\ messages' = messages \o
                         [j \in 1..Len(windows) |->
                             Message(windows[j].id, "PUSH_RECEIVED", jobs[i].event)]
       /\ handled' = "push untold" =>
              /\ \E i \in 1..Len(jobs) : RenderedChainEnds(i)
              /\ messages' = messages
              /\ notifications' = notifications
       /\ PushReceived(messages') # PushReceived(messages) => handled' = "push told"]_vars

\* a push whose payload does not parse was rendered, and both open windows
\* were told
C26_Witness ==
    /\ handled = "push told"
    /\ Len(windows) = 2
    /\ \E i \in 1..Len(notifications) : notifications[i].push = TextPush
    /\ \E e \in 1..events :
           PushReceived(messages) =
               <<Message(1, "PUSH_RECEIVED", e), Message(2, "PUSH_RECEIVED", e)>>

(* ----------------- the channel from the worker to the page -------------- *)

\* app.js, navigator.serviceWorker 'message' listener: the branches it takes
\* on a message of the given type (every message is logged first)
serviceWorkerMessage(type) ==
    (IF type = "REMINDER_NOTIFICATION_SHOWN" THEN {"notification was shown"} ELSE {})
    \cup (IF type = "REMINDER_NOTIFICATION_CLICKED" THEN {"notification was clicked"}
          ELSE {})

\* C27: every message the worker posts to a window has type PUSH_RECEIVED or
\* NOTIFICATION_CLICKED, and the page's message listener has a branch for it:
\* no message of the worker goes unmatched.
C27_EveryMessageRecognised ==
    \A i \in 1..Len(messages) :
        /\ messages[i].type \in {"PUSH_RECEIVED", "NOTIFICATION_CLICKED"}
        /\ serviceWorkerMessage(messages[i].type) # {}
====
